---- MODULE Spec2Model ----
(***************************************************************************)
(* Model of the Pulse Play content script (src/content/content-script.js): *)
(* the per-page VideoSpeedController (video registry, active-video         *)
(* selection, hold-to-boost hotkey state machine, speed indicator) and the *)
(* part of ContentScriptManager that feeds it (initial settings load,      *)
(* SETTINGS_UPDATED messages, SPA navigation), together with the settings  *)
(* store: the service worker (src/background/service-worker.js) and the    *)
(* settings utilities it calls (shared/settings.js, listed in              *)
(* src/README.md).                                                         *)
(*                                                                         *)
(* Playback rates are integers: 1 stands for 1.0x, 2 for 2.0x, ...         *)
(* Every handler is one action.  The handler bodies are operators on a     *)
(* record "w" that holds the controller's fields together with the part of *)
(* the page the handlers read and write, so that a handler is the          *)
(* composition of the methods it calls, in the order the code calls them.  *)
(***************************************************************************)
EXTENDS Integers, Sequences, FiniteSets, TLC

(***************************************************************************)
(* Bounds of the model.                                                    *)
(***************************************************************************)
MaxVideos == 2          \* <video> elements the page may hold
MaxTime == 2            \* Date.now() takes the values 1..MaxTime
MaxSteps == 3           \* events (handler runs, page changes) after initialization

(***************************************************************************)
(* Program constants.                                                      *)
(***************************************************************************)
NoVideo == 0            \* null, as a video reference (lastActiveVideo = null)
MaxMultiplier == 16     \* applySpeedBoost rejects multiplier > 16
DefaultMultiplier == 2  \* settings.speedMultiplier || 2.0
DefaultPlaybackRate == 1 \* originalRate: 1.0 // Default playback rate
DefaultIndicatorTimeout == 2000 \* settings?.ui?.indicatorTimeout ?? 2000

Videos == 1..MaxVideos
Times == 1..MaxTime
ModifierNames == {"ctrl", "alt", "shift", "meta"}

VARIABLES
    attached,        \* [Videos -> BOOLEAN]: document.contains(video)
    hidden,          \* [Videos -> BOOLEAN]: the page hides the element (display:none, ...)
    area,            \* [Videos -> Nat]: rect.width * rect.height of the element
    bodyObserved,    \* the node the mutation observer watches is still document.body
    playing,         \* [Videos -> BOOLEAN]: !video.paused && !video.ended
    playbackRate,    \* [Videos -> Int]: video.playbackRate
    now,             \* Date.now()
    settings,        \* VideoSpeedController.settings (NoSettings is null)
    trackedVideos,   \* Map video -> state record (its domain is the key set)
    videoEventListeners, \* key set of the videoEventListeners map
    lastActiveVideo, \* this.lastActiveVideo
    hotkeyState,     \* this.hotkeyState
    indicator,       \* the element document.getElementById finds for the indicator id
    duplicates,      \* the elements with that id after it, in document order
    autoHideTimer,   \* this.autoHideTimer and the timeout behind it
    navTimer,        \* handleNavigation's 500 ms re-detection timeout is pending
    phase,           \* "loading" until loadInitialSettings resolved, then "ready"
    pageState,       \* "active" (focused, visible), "blurred" or "hidden"
    steps,           \* events so far
    stored,          \* chrome.storage.sync's videoSpeedHotkeySettings (NoSettings: unset)
    request,         \* the message the service worker handled last
    responses,       \* the sendResponse calls made for that message, in order
    inbox,           \* SETTINGS_UPDATED messages on their way to the tab
    delayedSends,    \* settings held by the setTimeout callbacks of tabs.onUpdated
    pendingLoad,     \* what the storage get of a loadSettings not yet resumed has read
    hostname,        \* window.location.hostname
    isInitialized,   \* ContentScriptManager.isInitialized
    initializationRetries, \* ContentScriptManager.initializationRetries
    retryTimers,     \* timeouts of initialize's catch block that have not run yet
    messageListeners, \* listeners setupMessageListeners has added to runtime.onMessage
    initializeCalls, \* runs of initialize so far
    errorLog,        \* VideoSpeedController.errorLog, each entry by its serial number
    logged           \* entries pushed so far

vars == <<attached, hidden, area, bodyObserved, playing, playbackRate, now, settings, trackedVideos,
          videoEventListeners, lastActiveVideo, hotkeyState, indicator, duplicates,
          autoHideTimer, navTimer, phase, pageState, steps,
          stored, request, responses, inbox, delayedSends, pendingLoad, hostname,
          isInitialized, initializationRetries, retryTimers, messageListeners,
          initializeCalls, errorLog, logged>>

\* The state outside the page: the handlers of the content script leave it
\* alone.
storeVars == <<stored, request, responses, inbox, delayedSends, pendingLoad>>

\* The fields of the ContentScriptManager and the error log of the controller.
managerVars ==
    <<isInitialized, initializationRetries, retryTimers, messageListeners,
      initializeCalls>>

logVars == <<errorLog, logged>>

(***************************************************************************)
(* The state the handlers work on, as one record.                          *)
(***************************************************************************)
World ==
    [attached |-> attached, hidden |-> hidden, area |-> area,
     bodyObserved |-> bodyObserved, playing |-> playing,
     playbackRate |-> playbackRate, now |-> now, settings |-> settings,
     trackedVideos |-> trackedVideos, videoEventListeners |-> videoEventListeners,
     lastActiveVideo |-> lastActiveVideo, hotkeyState |-> hotkeyState,
     indicator |-> indicator, duplicates |-> duplicates,
     autoHideTimer |-> autoHideTimer,
     navTimer |-> navTimer, hostname |-> hostname]

CommitTab(w) ==
    /\ attached' = w.attached
    /\ hidden' = w.hidden
    /\ area' = w.area
    /\ bodyObserved' = w.bodyObserved
    /\ playing' = w.playing
    /\ playbackRate' = w.playbackRate
    /\ now' = w.now
    /\ settings' = w.settings
    /\ trackedVideos' = w.trackedVideos
    /\ videoEventListeners' = w.videoEventListeners
    /\ lastActiveVideo' = w.lastActiveVideo
    /\ hotkeyState' = w.hotkeyState
    /\ indicator' = w.indicator
    /\ duplicates' = w.duplicates
    /\ autoHideTimer' = w.autoHideTimer
    /\ navTimer' = w.navTimer
    /\ hostname' = w.hostname

CommitPage(w) == CommitTab(w) /\ UNCHANGED <<managerVars, logVars>>

Commit(w) == CommitPage(w) /\ UNCHANGED storeVars

(***************************************************************************)
(* Settings.  The controller holds whatever object the service worker sent *)
(* last: the GET_SETTINGS response, which loadSettings has validated (a key *)
(* of validKeys, a multiplier in [1.25, 5], a timeout in [500, 10000]), or  *)
(* a SETTINGS_UPDATED message, which chrome.storage.onChanged forwards      *)
(* without validation.                                                     *)
(***************************************************************************)
NoSettings == [isNull |-> TRUE]

PlatformNames == {"youtube", "vimeo", "netflix", "generic"}

AllPlatforms == [p \in PlatformNames |-> TRUE]

MkSettings(key, mods, enabled, mult, show, timeout) ==
    [hotkey |-> [key |-> key, modifiers |-> mods, enabled |-> enabled],
     speedMultiplier |-> mult,
     platforms |-> AllPlatforms,
     ui |-> [showIndicator |-> show, indicatorPosition |-> "top-right",
             indicatorTimeout |-> timeout]]

SpaceSettings == MkSettings("Space", {}, TRUE, 2, TRUE, 2000)
CtrlEscapeSettings == MkSettings("Escape", {"ctrl"}, TRUE, 3, TRUE, 500)
DisabledSettings == MkSettings("Space", {}, FALSE, 2, TRUE, 2000)
NoIndicatorSettings == MkSettings("Space", {}, TRUE, 2, FALSE, 2000)
\* Objects only an unvalidated update can bring.
BadMultiplierSettings == MkSettings("Space", {}, TRUE, 17, TRUE, 2000)
ZeroSettings == MkSettings("Space", {}, TRUE, 0, TRUE, 0)

ValidatedSettings ==
    {SpaceSettings, CtrlEscapeSettings, DisabledSettings, NoIndicatorSettings}

SettingsPool == ValidatedSettings \cup {BadMultiplierSettings, ZeroSettings}

HasHotkeySettings(s) == "hotkey" \in DOMAIN s

\* No message handled yet, nothing stored, nothing in flight.
NoRequest == [type |-> "none"]

\* No loadSettings is waiting for chrome.storage.sync.get.
NotLoading == [pending |-> FALSE]

StoreIdle ==
    /\ stored = NoSettings
    /\ request = NoRequest
    /\ responses = <<>>
    /\ inbox = <<>>
    /\ delayedSends = <<>>
    /\ pendingLoad = NotLoading

\* A page of no particular platform.
GenericHostname == "example.org"

\* The manager as constructed, the log of a new controller.
ManagerIdle ==
    /\ isInitialized = FALSE
    /\ initializationRetries = 0
    /\ retryTimers = 0
    /\ messageListeners = 0
    /\ initializeCalls = 0

LogEmpty ==
    /\ errorLog = <<>>
    /\ logged = 0

ScriptIdle == hostname = GenericHostname /\ ManagerIdle /\ LogEmpty

(***************************************************************************)
(* Keyboard events.  The target is the chain of elements from the event    *)
(* target up to the root, each with its tagName and contentEditable.       *)
(***************************************************************************)
El(tag, ce) == [tagName |-> tag, contentEditable |-> ce]

Targets ==
    {<<El("BODY", "inherit")>>,
     <<El("INPUT", "inherit"), El("BODY", "inherit")>>,
     <<El("DIV", "true"), El("BODY", "inherit")>>,
     <<El("SPAN", "inherit"), El("DIV", "true"), El("BODY", "inherit")>>,
     <<El("DIV", "plaintext-only"), El("BODY", "inherit")>>}

EventKeys == {" ", "Esc"}
EventModifiers == {{}, {"ctrl"}}

KeyEvents ==
    [key : EventKeys, modifiers : EventModifiers, target : Targets]

\* handleKeyUp does not look at the target.
KeyUpEvents == {event \in KeyEvents : event.target = <<El("BODY", "inherit")>>}

(***************************************************************************)
(* Video detection (detectVideos .. updateTrackedVideos).                  *)
(***************************************************************************)
\* rect.width * rect.height of a laid-out video.
AreaOf(v) == area[v]

\* The layout of the page the events run on: video 1 is the small one, the
\* others are equally large.
PageLayout == [v \in Videos |-> IF v = 1 THEN 1 ELSE 2]

\* isValidVideo.  querySelectorAll only finds attached elements; a hidden
\* element (display:none, visibility:hidden, opacity 0, no offsetParent)
\* fails isVisible; every video of the model has a source and a numeric
\* playbackRate.
IsValidVideo(w, v) ==
    LET hasSize == AreaOf(v) > 0
        hasSrc == TRUE
        isVisible == ~w.hidden[v]
        supportsPlaybackRate == TRUE
    IN  w.attached[v] /\ hasSize /\ hasSrc /\ isVisible /\ supportsPlaybackRate

\* The videos in document order (the order querySelectorAll returns them).
DocumentOrder == [i \in 1..MaxVideos |-> i]

SeqToSet(s) == {s[i] : i \in DOMAIN s}

NewVideoState(w, v) ==
    [originalRate |-> w.playbackRate[v], isSpeedBoosted |-> FALSE,
     lastInteraction |-> w.now]

\* updateTrackedVideos: drop tracked videos that are not in the list (and
\* their listeners), track the new ones (and add their listeners).
UpdateTrackedVideos(w, videos) ==
    LET vs == SeqToSet(videos)
        old == DOMAIN w.trackedVideos
    IN  [w EXCEPT
            !.trackedVideos =
                [v \in vs |-> IF v \in old THEN w.trackedVideos[v]
                                            ELSE NewVideoState(w, v)],
            !.videoEventListeners =
                (w.videoEventListeners \ (old \ vs)) \cup (vs \ old)]

\* detectVideos: the valid videos in discovery order; the map is updated.
DetectVideos(w) ==
    LET validVideos == SelectSeq(DocumentOrder, LAMBDA v : IsValidVideo(w, v))
    IN  [w |-> UpdateTrackedVideos(w, validVideos), videos |-> validVideos]

(***************************************************************************)
(* Active-video selection (getActiveVideo and its helpers).                *)
(***************************************************************************)
RECURSIVE MostRecentScan(_, _, _, _, _)
MostRecentScan(w, videos, i, mostRecent, latestTime) ==
    IF i > Len(videos) THEN mostRecent
    ELSE LET v == videos[i]
         IN  IF v \in DOMAIN w.trackedVideos
                /\ w.trackedVideos[v].lastInteraction > latestTime
             THEN MostRecentScan(w, videos, i + 1, v,
                                 w.trackedVideos[v].lastInteraction)
             ELSE MostRecentScan(w, videos, i + 1, mostRecent, latestTime)

\* A choice among the playing videos that takes the first one found.
GetFirstFound(w, videos) == videos[1]

GetMostRecentlyInteracted(w, videos) ==
    LET mostRecent == MostRecentScan(w, videos, 1, NoVideo, 0)
    IN  IF mostRecent # NoVideo THEN mostRecent ELSE videos[1]

RECURSIVE LargestScan(_, _, _, _)
LargestScan(videos, i, largest, maxArea) ==
    IF i > Len(videos) THEN largest
    ELSE IF AreaOf(videos[i]) > maxArea
         THEN LargestScan(videos, i + 1, videos[i], AreaOf(videos[i]))
         ELSE LargestScan(videos, i + 1, largest, maxArea)

GetLargestVideo(videos) == LargestScan(videos, 1, NoVideo, 0)

IsPlaying(w, v) == w.playing[v]

\* The tie-break of getActiveVideo for several candidates: the playing one
\* (the most recently interacted of several), else the last active one if
\* it is still a candidate, else the largest, else the first.
\* A selection that does not look at which videos are playing.
ByPlayingIgnored(d, playingVideos) == NoVideo

ByPlaying(d, playingVideos) ==
    IF Len(playingVideos) = 1 THEN playingVideos[1]
    ELSE IF Len(playingVideos) > 1
         THEN GetMostRecentlyInteracted(d.w, playingVideos)
         ELSE NoVideo

\* A selection that forgets the video it chose last.
ByLastActiveDropped(w, d, chosen) == chosen

ByLastActive(w, d, chosen) ==
    IF chosen = NoVideo /\ w.lastActiveVideo # NoVideo
       /\ w.lastActiveVideo \in SeqToSet(d.videos)
    THEN w.lastActiveVideo ELSE chosen

ByArea(d, chosen) ==
    IF chosen = NoVideo THEN GetLargestVideo(d.videos) ELSE chosen

ByOrder(d, chosen) ==
    IF chosen = NoVideo THEN d.videos[1] ELSE chosen

SelectAmong(w, d) ==
    ByOrder(d, ByArea(d, ByLastActive(w, d,
        ByPlaying(d, SelectSeq(d.videos, LAMBDA v : IsPlaying(w, v))))))

MarkActive(w, d, activeVideo) ==
    [w |-> [d.w EXCEPT !.lastActiveVideo = activeVideo,
                       !.trackedVideos[activeVideo].lastInteraction = w.now],
     video |-> activeVideo]

\* getActiveVideo on the result d of detectVideos.
ChooseActive(w, d) ==
    IF Len(d.videos) = 0
    THEN [w |-> [d.w EXCEPT !.lastActiveVideo = NoVideo], video |-> NoVideo]
    ELSE IF Len(d.videos) = 1
    THEN [w |-> [d.w EXCEPT !.lastActiveVideo = d.videos[1]],
          video |-> d.videos[1]]
    ELSE MarkActive(w, d, SelectAmong(w, d))

GetActiveVideo(w) == ChooseActive(w, DetectVideos(w))

(***************************************************************************)
(* Speed indicator and its auto-hide timer.                                *)
(* indicator.state: "none" (no element with the id in the document),       *)
(* "shown", or "hiding" (class ...-hiding set, removal timeout pending).   *)
(* autoHideTimer: "null", "pending" (a timeout is scheduled) or "fired"    *)
(* (the field still holds the id of a timeout that has run).               *)
(***************************************************************************)
NoIndicator == [state |-> "none", speed |-> 0]

ClearAutoHideTimer(w) == [w EXCEPT !.autoHideTimer = "null"]

IndicatorTimeout(s) ==
    IF "ui" \in DOMAIN s /\ "indicatorTimeout" \in DOMAIN s.ui
    THEN s.ui.indicatorTimeout ELSE DefaultIndicatorTimeout

\* A timer that is scheduled whatever the timeout.
SetupAutoHideTimerAlways(w) ==
    [ClearAutoHideTimer(w) EXCEPT !.autoHideTimer = "pending"]

SetupAutoHideTimer(w) ==
    LET c == ClearAutoHideTimer(w)
    IN  IF IndicatorTimeout(w.settings) <= 0 THEN c
        ELSE [c EXCEPT !.autoHideTimer = "pending"]

\* The elements with the indicator id, in document order.
IndicatorElements(w) ==
    IF w.indicator.state = "none" THEN <<>> ELSE <<w.indicator>> \o w.duplicates

\* The document with the elements es carrying the indicator id.
WithIndicatorElements(w, es) ==
    IF es = <<>> THEN [w EXCEPT !.indicator = NoIndicator, !.duplicates = <<>>]
    ELSE [w EXCEPT !.indicator = Head(es), !.duplicates = Tail(es)]

\* A show that leaves the existing element in the document.
ShowSpeedIndicatorKeeping(w, speed) ==
    IF ~("ui" \in DOMAIN w.settings) \/ ~w.settings.ui.showIndicator THEN w
    ELSE SetupAutoHideTimer(
             [w EXCEPT
                 !.autoHideTimer = "null",
                 !.indicator =
                     IF @.state # "none" THEN @
                     ELSE [state |-> "shown",
                           speed |-> IF speed # 0 THEN speed ELSE DefaultMultiplier],
                 !.duplicates =
                     IF w.indicator.state = "none" THEN <<>>
                     ELSE Append(@, [state |-> "shown",
                                     speed |-> IF speed # 0 THEN speed
                                               ELSE DefaultMultiplier])])

\* showSpeedIndicator: returns the state only (no caller reads the result).
\* The element getElementById finds (the first with the id) is taken out of
\* the document, the timer cleared and the new element appended to the body,
\* after any other element with the id.
ShowSpeedIndicator(w, speed) ==
    IF ~("ui" \in DOMAIN w.settings) \/ ~w.settings.ui.showIndicator THEN w
    ELSE SetupAutoHideTimer(
             [w EXCEPT
                 !.autoHideTimer = "null",
                 !.indicator =
                     IF w.duplicates # <<>> THEN Head(w.duplicates)
                     ELSE [state |-> "shown",
                           speed |-> IF speed # 0 THEN speed ELSE DefaultMultiplier],
                 !.duplicates =
                     IF @ = <<>> THEN <<>>
                     ELSE Append(Tail(@), [state |-> "shown",
                                           speed |-> IF speed # 0 THEN speed
                                                     ELSE DefaultMultiplier])])

\* updateSpeedIndicator: the text of the element found and a new timer, or a
\* show when there is no element.
UpdateSpeedIndicator(w, speed) ==
    IF w.indicator.state = "none" THEN ShowSpeedIndicator(w, speed)
    ELSE SetupAutoHideTimer(
             [w EXCEPT !.indicator.speed =
                          IF speed # 0 THEN speed ELSE DefaultMultiplier])

HideSpeedIndicator(w) ==
    IF w.indicator.state = "none" THEN w
    ELSE [ClearAutoHideTimer(w) EXCEPT !.indicator.state = "hiding"]

(***************************************************************************)
(* Speed control.  "bad" is the set of videos whose playbackRate setter    *)
(* throws while the handler runs (an unsupported rate, a page-defined      *)
(* property).                                                              *)
(***************************************************************************)
NoThrow == {}           \* no playbackRate assignment throws
ThrowSets == {NoThrow, Videos}

ValidMultiplier(multiplier) == ~(multiplier <= 0 \/ multiplier > MaxMultiplier)

\* trackedVideos.set(activeVideo, videoState) for a video that is not tracked.
EnsureTracked(w, v, originalRate) ==
    IF v \in DOMAIN w.trackedVideos THEN w
    ELSE [w EXCEPT !.trackedVideos =
             [u \in DOMAIN w.trackedVideos \cup {v} |->
                 IF u = v
                 THEN [NewVideoState(w, v) EXCEPT !.originalRate = originalRate]
                 ELSE w.trackedVideos[u]]]

\* A boost that is applied again to a video that is boosted already.
BoostVideoAgain(w, v, multiplier, bad) ==
    IF ~ValidMultiplier(multiplier) THEN [w |-> w, ok |-> FALSE]
    ELSE IF v \in bad
    THEN [w |-> [w EXCEPT !.trackedVideos[v].originalRate = w.playbackRate[v]],
          ok |-> FALSE]
    ELSE [w |-> [w EXCEPT !.trackedVideos[v].originalRate = w.playbackRate[v],
                          !.playbackRate[v] = multiplier,
                          !.trackedVideos[v].isSpeedBoosted = TRUE],
          ok |-> TRUE]

\* applySpeedBoost from "Don't apply if already speed boosted" on.
BoostVideo(w, v, multiplier, bad) ==
    IF w.trackedVideos[v].isSpeedBoosted THEN [w |-> w, ok |-> TRUE]
    ELSE IF ~ValidMultiplier(multiplier) THEN [w |-> w, ok |-> FALSE]
    ELSE IF v \in bad
    THEN [w |-> [w EXCEPT !.trackedVideos[v].originalRate = w.playbackRate[v]],
          ok |-> FALSE]
    ELSE [w |-> [w EXCEPT !.trackedVideos[v].originalRate = w.playbackRate[v],
                          !.playbackRate[v] = multiplier,
                          !.trackedVideos[v].isSpeedBoosted = TRUE],
          ok |-> TRUE]

\* applySpeedBoost on the result g of getActiveVideo.
BoostActive(g, multiplier, bad) ==
    IF g.video = NoVideo THEN [w |-> g.w, ok |-> FALSE]
    ELSE BoostVideo(EnsureTracked(g.w, g.video, g.w.playbackRate[g.video]),
                    g.video, multiplier, bad)

ApplySpeedBoost(w, multiplier, bad) ==
    BoostActive(GetActiveVideo(w), multiplier, bad)

(***************************************************************************)
(* applySpeedBoost(multiplier = 2.0) as a function of any JavaScript       *)
(* argument.  An argument is a record: kind "number" with its value, or    *)
(* one of the values that are no finite number.                            *)
(***************************************************************************)
DefaultBoost == 2       \* applySpeedBoost(multiplier = 2.0)

NumArg(n) == [kind |-> "number", value |-> n]
OtherArg(kind) == [kind |-> kind, value |-> 0]

ArgumentKinds ==
    {"NaN", "Infinity", "-Infinity", "string", "null", "undefined"}

\* The default parameter replaces an argument that is undefined.
ParameterOf(arg) ==
    IF arg.kind = "undefined" THEN NumArg(DefaultBoost) ELSE arg

\* typeof multiplier !== "number" || multiplier <= 0 || multiplier > 16:
\* NaN is a number for typeof and fails neither comparison.
RejectsMultiplier(arg) ==
    CASE arg.kind = "number" -> ~ValidMultiplier(arg.value)
      [] arg.kind = "NaN" -> FALSE
      [] arg.kind = "Infinity" -> TRUE
      [] arg.kind = "-Infinity" -> TRUE
      [] OTHER -> TRUE

\* applySpeedBoost from "Don't apply if already speed boosted" on.  The
\* playbackRate attribute is a restricted double: assigning NaN throws a
\* TypeError, whatever the element.
BoostVideoWith(w, v, arg, bad) ==
    IF arg.kind = "number" THEN BoostVideo(w, v, arg.value, bad)
    ELSE IF w.trackedVideos[v].isSpeedBoosted THEN [w |-> w, ok |-> TRUE]
    ELSE IF RejectsMultiplier(arg) THEN [w |-> w, ok |-> FALSE]
    ELSE [w |-> [w EXCEPT !.trackedVideos[v].originalRate = w.playbackRate[v]],
          ok |-> FALSE]

BoostActiveWith(g, arg, bad) ==
    IF g.video = NoVideo THEN [w |-> g.w, ok |-> FALSE]
    ELSE BoostVideoWith(EnsureTracked(g.w, g.video, g.w.playbackRate[g.video]),
                        g.video, arg, bad)

ApplySpeedBoostWith(w, arg, bad) ==
    BoostActiveWith(GetActiveVideo(w), ParameterOf(arg), bad)

\* A restore that clears the flag before it assigns the rate.
RestoreVideoFlagFirst(w, v, bad) ==
    IF ~w.trackedVideos[v].isSpeedBoosted THEN [w |-> w, ok |-> TRUE]
    ELSE IF v \in bad
    THEN [w |-> [w EXCEPT !.trackedVideos[v].isSpeedBoosted = FALSE],
          ok |-> FALSE]
    ELSE [w |-> [w EXCEPT
                    !.playbackRate[v] = w.trackedVideos[v].originalRate,
                    !.trackedVideos[v].isSpeedBoosted = FALSE],
          ok |-> TRUE]

\* A restore that goes to the default rate instead of the recorded one.
RestoreVideoToDefault(w, v, bad) ==
    IF ~w.trackedVideos[v].isSpeedBoosted THEN [w |-> w, ok |-> TRUE]
    ELSE IF v \in bad THEN [w |-> w, ok |-> FALSE]
    ELSE [w |-> [w EXCEPT
                    !.playbackRate[v] = DefaultPlaybackRate,
                    !.trackedVideos[v].isSpeedBoosted = FALSE],
          ok |-> TRUE]

\* restoreOriginalSpeed from "Don't restore if not speed boosted" on.
RestoreVideo(w, v, bad) ==
    IF ~w.trackedVideos[v].isSpeedBoosted THEN [w |-> w, ok |-> TRUE]
    ELSE IF v \in bad THEN [w |-> w, ok |-> FALSE]
    ELSE [w |-> [w EXCEPT
                    !.playbackRate[v] = w.trackedVideos[v].originalRate,
                    !.trackedVideos[v].isSpeedBoosted = FALSE],
          ok |-> TRUE]

\* restoreOriginalSpeed on the result g of getActiveVideo.
RestoreActive(g, bad) ==
    IF g.video = NoVideo THEN [w |-> g.w, ok |-> FALSE]
    ELSE RestoreVideo(EnsureTracked(g.w, g.video, DefaultPlaybackRate),
                      g.video, bad)

RestoreOriginalSpeed(w, bad) == RestoreActive(GetActiveVideo(w), bad)

\* A reset whose loop ends at the first rate assignment that throws (the
\* map is iterated in insertion order, here the order of the videos).
ResetAllSpeedsAborting(w, bad) ==
    LET boosted == {v \in DOMAIN w.trackedVideos :
                        w.trackedVideos[v].isSpeedBoosted}
        done == {v \in boosted : \A u \in boosted \cap bad : v < u}
        w1 == [w EXCEPT
                  !.playbackRate =
                      [v \in Videos |-> IF v \in done
                                        THEN w.trackedVideos[v].originalRate
                                        ELSE w.playbackRate[v]],
                  !.trackedVideos =
                      [v \in DOMAIN w.trackedVideos |->
                          IF v \in done
                          THEN [w.trackedVideos[v] EXCEPT !.isSpeedBoosted = FALSE]
                          ELSE w.trackedVideos[v]]]
    IN  [w |-> HideSpeedIndicator(w1), count |-> Cardinality(done)]

\* resetAllSpeeds: every tracked boosted video whose setter does not throw
\* is restored; the indicator is hidden; the count of restored videos.
ResetAllSpeeds(w, bad) ==
    LET boosted == {v \in DOMAIN w.trackedVideos :
                        w.trackedVideos[v].isSpeedBoosted}
        done == boosted \ bad
        w1 == [w EXCEPT
                  !.playbackRate =
                      [v \in Videos |-> IF v \in done
                                        THEN w.trackedVideos[v].originalRate
                                        ELSE w.playbackRate[v]],
                  !.trackedVideos =
                      [v \in DOMAIN w.trackedVideos |->
                          IF v \in done
                          THEN [w.trackedVideos[v] EXCEPT !.isSpeedBoosted = FALSE]
                          ELSE w.trackedVideos[v]]]
    IN  [w |-> HideSpeedIndicator(w1), count |-> Cardinality(done)]

(***************************************************************************)
(* Hotkey state machine.                                                   *)
(***************************************************************************)
NoKey == ""             \* currentKey: null

NoModifiers == [m \in ModifierNames |-> FALSE]

IdleHotkeyState ==
    [isPressed |-> FALSE, currentKey |-> NoKey, modifiers |-> NoModifiers,
     preventMultipleActivations |-> FALSE]

\* A reset that forgets the modifier flags and the re-entry guard.
ResetPressedOnly(w) ==
    [w EXCEPT !.hotkeyState.isPressed = FALSE, !.hotkeyState.currentKey = NoKey]

ResetHotkeyState(w) == [w EXCEPT !.hotkeyState = IdleHotkeyState]

\* isTypingInInputField: the target itself, then its ancestors.
IsTypingInInputField(target) ==
    \/ target[1].tagName \in {"INPUT", "TEXTAREA", "SELECT"}
    \/ target[1].contentEditable = "true"
    \/ \E i \in 2..Len(target) : target[i].contentEditable = "true"

UpdateModifierState(w, event) ==
    [w EXCEPT !.hotkeyState.modifiers =
        [m \in ModifierNames |-> m \in event.modifiers]]

NormalizeKey(key) ==
    CASE key = " " -> "Space"
      [] key = "Spacebar" -> "Space"
      [] key = "Esc" -> "Escape"
      [] key = "Del" -> "Delete"
      [] key = "Ins" -> "Insert"
      [] key = "PgUp" -> "PageUp"
      [] key = "PgDn" -> "PageDown"
      [] key = "Left" -> "ArrowLeft"
      [] key = "Right" -> "ArrowRight"
      [] key = "Up" -> "ArrowUp"
      [] key = "Down" -> "ArrowDown"
      [] OTHER -> key

\* A match that only asks for the required modifiers (extra ones pass).
IsConfiguredHotkeyRequiredOnly(w, event) ==
    /\ HasHotkeySettings(w.settings)
    /\ NormalizeKey(event.key) = NormalizeKey(w.settings.hotkey.key)
    /\ \A m \in w.settings.hotkey.modifiers : w.hotkeyState.modifiers[m]

\* isConfiguredHotkey: the key of the event, the modifiers of hotkeyState.
IsConfiguredHotkey(w, event) ==
    /\ HasHotkeySettings(w.settings)
    /\ NormalizeKey(event.key) = NormalizeKey(w.settings.hotkey.key)
    /\ \A m \in ModifierNames :
          (m \in w.settings.hotkey.modifiers) = w.hotkeyState.modifiers[m]

IsConfiguredHotkeyRelease(w, event) ==
    /\ w.hotkeyState.isPressed
    /\ NormalizeKey(event.key) = w.hotkeyState.currentKey

SpeedMultiplier(s) ==
    IF s.speedMultiplier # 0 THEN s.speedMultiplier ELSE DefaultMultiplier

\* activateSpeedBoost after applySpeedBoost returned a.
AfterApply(a, multiplier) ==
    IF a.ok THEN ShowSpeedIndicator(a.w, multiplier)
    ELSE ResetHotkeyState(a.w)

Pressed(w, event) ==
    [w EXCEPT !.hotkeyState.isPressed = TRUE,
              !.hotkeyState.currentKey = NormalizeKey(event.key),
              !.hotkeyState.preventMultipleActivations = TRUE]

\* An activation that boosts by the default multiplier, whatever is configured.
ActivateDefaultMultiplier(w, event, bad) ==
    AfterApply(ApplySpeedBoost(Pressed(w, event), DefaultMultiplier, bad),
               DefaultMultiplier)

ActivateSpeedBoost(w, event, bad) ==
    AfterApply(ApplySpeedBoost(Pressed(w, event), SpeedMultiplier(w.settings), bad),
               SpeedMultiplier(w.settings))

\* deactivateSpeedBoost after restoreOriginalSpeed returned r.
AfterRestore(r) ==
    ResetHotkeyState(IF r.ok THEN HideSpeedIndicator(r.w) ELSE r.w)

DeactivateSpeedBoost(w, bad) ==
    IF ~w.hotkeyState.isPressed THEN w
    ELSE AfterRestore(RestoreOriginalSpeed(w, bad))

\* handleKeyDown once the modifier flags are updated.
OnHotkeyDown(w, event, bad) ==
    IF ~IsConfiguredHotkey(w, event) THEN w
    ELSE IF w.hotkeyState.preventMultipleActivations THEN w
    ELSE IF ~w.hotkeyState.isPressed THEN ActivateSpeedBoost(w, event, bad)
    ELSE w

HandleKeyDown(w, event, bad) ==
    IF ~HasHotkeySettings(w.settings) THEN w
    ELSE IF ~w.settings.hotkey.enabled THEN w
    ELSE IF IsTypingInInputField(event.target) THEN w
    ELSE OnHotkeyDown(UpdateModifierState(w, event), event, bad)

\* handleKeyUp once the modifier flags are updated.
OnHotkeyUp(w, event, bad) ==
    IF IsConfiguredHotkeyRelease(w, event) THEN DeactivateSpeedBoost(w, bad)
    ELSE w

HandleKeyUp(w, event, bad) ==
    IF ~HasHotkeySettings(w.settings) THEN w
    ELSE OnHotkeyUp(UpdateModifierState(w, event), event, bad)

HandleWindowBlur(w, bad) ==
    ClearAutoHideTimer(
        ResetAllSpeeds(IF w.hotkeyState.isPressed
                       THEN DeactivateSpeedBoost(w, bad)
                       ELSE HideSpeedIndicator(w), bad).w)

\* A clean-up that drops the first stale entry only.
CleanupFirstStale(w) ==
    LET stale == {v \in DOMAIN w.trackedVideos :
                     /\ ~w.attached[v]
                     /\ \A u \in DOMAIN w.trackedVideos : ~w.attached[u] => v <= u}
    IN  [w EXCEPT
            !.trackedVideos =
                [v \in DOMAIN w.trackedVideos \ stale |-> w.trackedVideos[v]],
            !.lastActiveVideo =
                IF w.lastActiveVideo \in stale THEN NoVideo
                ELSE w.lastActiveVideo]

\* Of several elements with the indicator id, all but the last are removed.
RemoveOrphanIndicators(w) ==
    [w EXCEPT !.indicator = IF w.duplicates = <<>> THEN @
                            ELSE w.duplicates[Len(w.duplicates)],
              !.duplicates = <<>>]

\* cleanupStaleElements: tracked videos that left the document are dropped
\* (their listeners are not), then the orphan indicators.
CleanupStaleElements(w) ==
    LET stale == {v \in DOMAIN w.trackedVideos : ~w.attached[v]}
    IN  [RemoveOrphanIndicators(w) EXCEPT
            !.trackedVideos =
                [v \in DOMAIN w.trackedVideos \ stale |-> w.trackedVideos[v]],
            !.lastActiveVideo =
                IF w.lastActiveVideo \in stale THEN NoVideo
                ELSE w.lastActiveVideo]

HandleWindowFocus(w) ==
    HideSpeedIndicator(DetectVideos(ResetHotkeyState(w)).w)

HandleVisibilityChange(w, documentHidden, bad) ==
    IF documentHidden
    THEN ClearAutoHideTimer(HideSpeedIndicator(
             ResetAllSpeeds(IF w.hotkeyState.isPressed
                            THEN DeactivateSpeedBoost(w, bad)
                            ELSE w, bad).w))
    ELSE CleanupStaleElements(DetectVideos(ResetHotkeyState(w)).w)

(***************************************************************************)
(* DOM mutations (handleDOMMutations, cleanupRemovedVideos).  "removed" is *)
(* the set of videos inside the removed node of the mutation record.       *)
(***************************************************************************)
NodeContainsTrackedVideos(w, removed) ==
    removed \cap DOMAIN w.trackedVideos # {}

CleanupRemovedVideos(w, removed) ==
    LET videosToRemove == removed \cap DOMAIN w.trackedVideos
    IN  [w EXCEPT
            !.videoEventListeners = w.videoEventListeners \ videosToRemove,
            !.trackedVideos =
                [v \in DOMAIN w.trackedVideos \ videosToRemove |->
                    w.trackedVideos[v]],
            !.lastActiveVideo =
                IF w.lastActiveVideo \in videosToRemove THEN NoVideo
                ELSE w.lastActiveVideo]

\* handleDOMMutations after the clean-up of the removed videos.
AfterVideosRemoved(w, bad) ==
    IF w.hotkeyState.isPressed
       /\ (w.lastActiveVideo = NoVideo \/ ~w.attached[w.lastActiveVideo])
    THEN DeactivateSpeedBoost(w, bad)
    ELSE w

HandleDOMMutations(w, removed, bad) ==
    IF ~NodeContainsTrackedVideos(w, removed) THEN w
    ELSE AfterVideosRemoved(
             CleanupStaleElements(CleanupRemovedVideos(w, removed)), bad)

(***************************************************************************)
(* Video lifecycle events (handleVideoEnded .. handleVideoSeeked).         *)
(***************************************************************************)
IsBoosted(w, v) ==
    v \in DOMAIN w.trackedVideos /\ w.trackedVideos[v].isSpeedBoosted

Touch(w, v) ==
    IF v \in DOMAIN w.trackedVideos
    THEN [w EXCEPT !.trackedVideos[v].lastInteraction = w.now]
    ELSE w

\* The restore of the ended and error handlers: rate and flag of video v.
RestoreTracked(w, v) ==
    [w EXCEPT !.playbackRate[v] = w.trackedVideos[v].originalRate,
              !.trackedVideos[v].isSpeedBoosted = FALSE]

\* The end of the ended and error handlers: the boost is over if v was the
\* active video.
DeactivateIfActive(w, v, bad) ==
    IF w.hotkeyState.isPressed /\ w.lastActiveVideo = v
    THEN DeactivateSpeedBoost(w, bad)
    ELSE w

\* handleVideoEnded: the rate assignment is not guarded, so a throw ends
\* the handler in its catch.
HandleVideoEnded(w, v, bad) ==
    IF IsBoosted(w, v) /\ v \in bad THEN w
    ELSE DeactivateIfActive(
             IF IsBoosted(w, v)
             THEN IF w.lastActiveVideo = v
                  THEN HideSpeedIndicator(RestoreTracked(w, v))
                  ELSE RestoreTracked(w, v)
             ELSE w, v, bad)

HandleVideoPaused(w, v) ==
    IF w.lastActiveVideo = v /\ w.hotkeyState.isPressed
    THEN HideSpeedIndicator(w) ELSE w

\* handleVideoPlay on the result g of getActiveVideo, the hotkey held.
ShowIfActive(g, v) ==
    IF g.video = v THEN ShowSpeedIndicator(g.w, g.w.playbackRate[v]) ELSE g.w

HandleVideoPlay(w, v) ==
    IF w.hotkeyState.isPressed
    THEN ShowIfActive(GetActiveVideo(Touch(w, v)), v)
    ELSE Touch(w, v)

HandleVideoError(w, v, bad) ==
    DeactivateIfActive(
        IF IsBoosted(w, v) /\ v \notin bad THEN RestoreTracked(w, v) ELSE w,
        v, bad)

HandleVideoLoadStart(w, v) ==
    IF IsBoosted(w, v)
    THEN [w EXCEPT !.trackedVideos[v].isSpeedBoosted = FALSE,
                   !.trackedVideos[v].originalRate = DefaultPlaybackRate]
    ELSE w

\* video.playbackRate || 1.0
RateOrDefault(w, v) ==
    IF w.playbackRate[v] # 0 THEN w.playbackRate[v] ELSE DefaultPlaybackRate

HandleVideoLoadedData(w, v) ==
    IF v \notin DOMAIN w.trackedVideos
    THEN [w EXCEPT !.trackedVideos =
             [u \in DOMAIN w.trackedVideos \cup {v} |->
                 IF u = v
                 THEN [NewVideoState(w, v) EXCEPT !.originalRate = RateOrDefault(w, v)]
                 ELSE w.trackedVideos[u]]]
    ELSE [w EXCEPT !.trackedVideos[v].originalRate = RateOrDefault(w, v),
                   !.trackedVideos[v].lastInteraction = w.now]

HandleVideoCanPlay(w, v) ==
    IF v \notin DOMAIN w.trackedVideos
    THEN [w EXCEPT !.trackedVideos =
             [u \in DOMAIN w.trackedVideos \cup {v} |->
                 IF u = v
                 THEN [NewVideoState(w, v) EXCEPT !.originalRate = RateOrDefault(w, v)]
                 ELSE w.trackedVideos[u]]]
    ELSE w

HandleVideoRateChange(w, v) ==
    IF v \in DOMAIN w.trackedVideos
       /\ ~w.trackedVideos[v].isSpeedBoosted
       /\ w.playbackRate[v] # w.trackedVideos[v].originalRate
    THEN [w EXCEPT !.trackedVideos[v].originalRate = w.playbackRate[v]]
    ELSE w

HandleVideoSeeking(w, v) == Touch(w, v)

\* An event of a video reaches the controller only through the listeners
\* addVideoEventListeners put on it.
Deliver(w, v, handled) == IF v \in w.videoEventListeners THEN handled ELSE w

(***************************************************************************)
(* ContentScriptManager.                                                   *)
(***************************************************************************)
HandleNavigation(w, bad) ==
    [HideSpeedIndicator(ResetAllSpeeds(w, bad).w) EXCEPT !.navTimer = TRUE]

(***************************************************************************)
(* Initial state: the content script has been injected, the controller is  *)
(* constructed and GET_SETTINGS is on its way.  The page holds any of the  *)
(* videos, paused at the default rate.                                     *)
(***************************************************************************)
PageRates == {1, 2}     \* rates the page's own controls set

Init ==
    /\ attached \in [Videos -> BOOLEAN]
    /\ hidden = [v \in Videos |-> FALSE]
    /\ area = PageLayout
    /\ bodyObserved = TRUE
    /\ playing = [v \in Videos |-> FALSE]
    /\ playbackRate = [v \in Videos |-> DefaultPlaybackRate]
    /\ now = 1
    /\ settings = NoSettings
    /\ trackedVideos = <<>>
    /\ videoEventListeners = {}
    /\ lastActiveVideo = NoVideo
    /\ hotkeyState = IdleHotkeyState
    /\ indicator = NoIndicator
    /\ duplicates = <<>>
    /\ autoHideTimer = "null"
    /\ navTimer = FALSE
    /\ phase = "loading"
    /\ pageState = "active"
    /\ steps = 0
    /\ StoreIdle
    /\ ScriptIdle

\* The listeners are registered once loadInitialSettings has resolved.
Ready == phase = "ready"

\* One more event of the run.
Step == steps < MaxSteps /\ steps' = steps + 1

\* Keyboard events reach the document of the focused, visible window only.
Active == Ready /\ pageState = "active"

(***************************************************************************)
(* ContentScriptManager: settings and navigation.                          *)
(***************************************************************************)
\* loadInitialSettings: the response of GET_SETTINGS (loadSettings returns
\* validated settings), or a failure that leaves settings null.
LoadInitialSettings ==
    /\ phase = "loading"
    /\ \E s \in ValidatedSettings \cup {NoSettings} :
          Commit([World EXCEPT !.settings = s])
    /\ phase' = "ready"
    /\ UNCHANGED <<pageState, steps>>

SettingsUpdated ==
    /\ Step
    /\ Ready
    /\ \E s \in SettingsPool : Commit([World EXCEPT !.settings = s])
    /\ UNCHANGED <<phase, pageState>>

Navigation ==
    /\ Step
    /\ Ready
    /\ \E bad \in SUBSET Videos : Commit(HandleNavigation(World, bad))
    /\ UNCHANGED <<phase, pageState>>

NavTimerFires ==
    /\ Step
    /\ navTimer
    /\ Commit([DetectVideos(World).w EXCEPT !.navTimer = FALSE])
    /\ UNCHANGED <<phase, pageState>>

(***************************************************************************)
(* Keyboard, focus and visibility events.                                  *)
(***************************************************************************)
KeyDown ==
    /\ Step
    /\ Active
    /\ \E event \in KeyEvents, bad \in ThrowSets :
          Commit(HandleKeyDown(World, event, bad))
    /\ UNCHANGED <<phase, pageState>>

KeyUp ==
    /\ Step
    /\ Active
    /\ \E event \in KeyUpEvents, bad \in ThrowSets :
          Commit(HandleKeyUp(World, event, bad))
    /\ UNCHANGED <<phase, pageState>>

\* The controller and the manager each register a listener for blur, focus
\* and visibilitychange (initializeHotkeyListeners, setupPageLifecycleHandlers):
\* one event runs the handler twice.
OnWindowBlur(w, bad) == HandleWindowBlur(HandleWindowBlur(w, bad), bad)

OnWindowFocus(w) == HandleWindowFocus(HandleWindowFocus(w))

OnVisibilityChange(w, documentHidden, bad) ==
    HandleVisibilityChange(HandleVisibilityChange(w, documentHidden, bad),
                           documentHidden, bad)

WindowBlur ==
    /\ Step
    /\ Active
    /\ \E bad \in SUBSET Videos : Commit(OnWindowBlur(World, bad))
    /\ pageState' = "blurred"
    /\ UNCHANGED phase

WindowFocus ==
    /\ Step
    /\ Ready
    /\ pageState = "blurred"
    /\ Commit(OnWindowFocus(World))
    /\ pageState' = "active"
    /\ UNCHANGED phase

\* The tab is hidden (from the focused or the blurred window) or shown again.
VisibilityChange ==
    /\ Step
    /\ Ready
    /\ \E bad \in SUBSET Videos :
          Commit(OnVisibilityChange(World, pageState # "hidden", bad))
    /\ pageState' = IF pageState = "hidden" THEN "blurred" ELSE "hidden"
    /\ UNCHANGED phase

(***************************************************************************)
(* Timers.                                                                 *)
(***************************************************************************)
\* The callback setupAutoHideTimer schedules: the field keeps the id of the
\* timeout that has run unless the hide clears it.
AutoHideTimerCallback(w) ==
    LET fired == [w EXCEPT !.autoHideTimer = "fired"]
    IN  IF ~fired.hotkeyState.isPressed THEN HideSpeedIndicator(fired) ELSE fired

AutoHideTimerFires ==
    /\ Step
    /\ autoHideTimer = "pending"
    /\ Commit(AutoHideTimerCallback(World))
    /\ UNCHANGED <<phase, pageState>>

\* The elements es without the i-th.
WithoutElement(es, i) ==
    [j \in 1..(Len(es) - 1) |-> IF j < i THEN es[j] ELSE es[j + 1]]

\* The callback of hideSpeedIndicator's timeout: the element it was set for
\* (the i-th with the id) is removed.
RemoveHiddenIndicator(w, i) ==
    WithIndicatorElements(w, WithoutElement(IndicatorElements(w), i))

HidingIndicators(w) ==
    {i \in 1..Len(IndicatorElements(w)) : IndicatorElements(w)[i].state = "hiding"}

IndicatorRemovalFires ==
    /\ Step
    /\ \E i \in HidingIndicators(World) : Commit(RemoveHiddenIndicator(World, i))
    /\ UNCHANGED <<phase, pageState>>

Tick ==
    /\ Step
    /\ now < MaxTime
    /\ Commit([World EXCEPT !.now = now + 1])
    /\ UNCHANGED <<phase, pageState>>

(***************************************************************************)
(* The page: style changes, DOM mutations (with the mutation observer's    *)
(* callback) and media events (with the listeners' callbacks).             *)
(***************************************************************************)
PageTogglesHidden ==
    /\ Step
    /\ \E v \in Videos : Commit([World EXCEPT !.hidden[v] = ~hidden[v]])
    /\ UNCHANGED <<phase, pageState>>

\* The observer watches the node that was document.body when
\* initializeMutationObserver ran, and its subtree.
Observe(w, removed, bad) ==
    IF Ready /\ w.bodyObserved THEN HandleDOMMutations(w, removed, bad) ELSE w

PageRemovesNode ==
    /\ Step
    /\ \E removed \in SUBSET {v \in Videos : attached[v]}, bad \in ThrowSets :
          /\ removed # {}
          /\ Commit(Observe([World EXCEPT !.attached =
                                [v \in Videos |-> attached[v] /\ v \notin removed]],
                            removed, bad))
    /\ UNCHANGED <<phase, pageState>>

\* A node is taken out and put back in one task (a player is re-parented).
PageMovesNode ==
    /\ Step
    /\ \E removed \in SUBSET {v \in Videos : attached[v]}, bad \in ThrowSets :
          /\ removed # {}
          /\ Commit(Observe(World, removed, bad))
    /\ UNCHANGED <<phase, pageState>>

\* The page swaps document.body for a new one (a body-replacing navigation):
\* the videos of the old body leave the document, the new body brings any
\* of the others.  The removal of the observed node itself is no mutation
\* of its subtree, and the new body is not observed.  The indicator was a
\* child of the old body.
PageReplacesBody ==
    /\ Step
    /\ \E fresh \in SUBSET {v \in Videos : ~attached[v]} :
          Commit([World EXCEPT
                     !.attached = [v \in Videos |-> v \in fresh],
                     !.indicator = NoIndicator, !.duplicates = <<>>,
                     !.bodyObserved = ~Ready])
    /\ UNCHANGED <<phase, pageState>>

PageInsertsVideo ==
    /\ Step
    /\ \E v \in Videos :
          /\ ~attached[v]
          /\ Commit([World EXCEPT !.attached[v] = TRUE])
    /\ UNCHANGED <<phase, pageState>>

VideoPlay ==
    /\ Step
    /\ \E v \in Videos :
          /\ ~playing[v]
          /\ LET w == [World EXCEPT !.playing[v] = TRUE]
             IN  Commit(Deliver(w, v, HandleVideoPlay(w, v)))
    /\ UNCHANGED <<phase, pageState>>

VideoPause ==
    /\ Step
    /\ \E v \in Videos :
          /\ playing[v]
          /\ LET w == [World EXCEPT !.playing[v] = FALSE]
             IN  Commit(Deliver(w, v, HandleVideoPaused(w, v)))
    /\ UNCHANGED <<phase, pageState>>

VideoEnded ==
    /\ Step
    /\ \E v \in Videos, bad \in ThrowSets :
          /\ playing[v]
          /\ LET w == [World EXCEPT !.playing[v] = FALSE]
             IN  Commit(Deliver(w, v, HandleVideoEnded(w, v, bad)))
    /\ UNCHANGED <<phase, pageState>>

VideoError ==
    /\ Step
    /\ \E v \in Videos, bad \in ThrowSets :
          LET w == [World EXCEPT !.playing[v] = FALSE]
          IN  Commit(Deliver(w, v, HandleVideoError(w, v, bad)))
    /\ UNCHANGED <<phase, pageState>>

\* The load algorithm pauses the element and sets playbackRate to the
\* default rate before loadstart is fired.
VideoLoadStart ==
    /\ Step
    /\ \E v \in Videos :
          LET w == [World EXCEPT !.playing[v] = FALSE,
                                 !.playbackRate[v] = DefaultPlaybackRate]
          IN  Commit(Deliver(w, v, HandleVideoLoadStart(w, v)))
    /\ UNCHANGED <<phase, pageState>>

VideoLoadedData ==
    /\ Step
    /\ \E v \in Videos : Commit(Deliver(World, v, HandleVideoLoadedData(World, v)))
    /\ UNCHANGED <<phase, pageState>>

VideoCanPlay ==
    /\ Step
    /\ \E v \in Videos : Commit(Deliver(World, v, HandleVideoCanPlay(World, v)))
    /\ UNCHANGED <<phase, pageState>>

\* The page's own controls set a rate; ratechange is fired.
VideoRateChange ==
    /\ Step
    /\ \E v \in Videos, r \in PageRates :
          LET w == [World EXCEPT !.playbackRate[v] = r]
          IN  Commit(Deliver(w, v, HandleVideoRateChange(w, v)))
    /\ UNCHANGED <<phase, pageState>>

VideoSeeking ==
    /\ Step
    /\ \E v \in Videos : Commit(Deliver(World, v, HandleVideoSeeking(World, v)))
    /\ UNCHANGED <<phase, pageState>>

Next ==
    \/ LoadInitialSettings
    \/ SettingsUpdated
    \/ Navigation
    \/ NavTimerFires
    \/ KeyDown
    \/ KeyUp
    \/ WindowBlur
    \/ WindowFocus
    \/ VisibilityChange
    \/ AutoHideTimerFires
    \/ IndicatorRemovalFires
    \/ Tick
    \/ PageTogglesHidden
    \/ PageRemovesNode
    \/ PageMovesNode
    \/ PageReplacesBody
    \/ PageInsertsVideo
    \/ VideoPlay
    \/ VideoPause
    \/ VideoEnded
    \/ VideoError
    \/ VideoLoadStart
    \/ VideoLoadedData
    \/ VideoCanPlay
    \/ VideoRateChange
    \/ VideoSeeking

Spec == Init /\ [][Next]_vars

(***************************************************************************)
(* The hotkey matcher on its own: every configured modifier set against    *)
(* every set of held modifiers, on a page with all videos attached.        *)
(***************************************************************************)
HotkeySettings ==
    {MkSettings(k, m, TRUE, 2, TRUE, 2000) :
        k \in {"Space", "Enter", "Escape"}, m \in SUBSET ModifierNames}

HotkeyEvents ==
    [key : {" ", "Spacebar", "Enter", "Esc"}, modifiers : SUBSET ModifierNames,
     target : {<<El("BODY", "inherit")>>}]

HotkeyInit ==
    /\ attached = [v \in Videos |-> TRUE]
    /\ hidden = [v \in Videos |-> FALSE]
    /\ area = PageLayout
    /\ bodyObserved = TRUE
    /\ playing = [v \in Videos |-> FALSE]
    /\ playbackRate = [v \in Videos |-> DefaultPlaybackRate]
    /\ now = 1
    /\ settings \in HotkeySettings
    /\ trackedVideos = <<>>
    /\ videoEventListeners = {}
    /\ lastActiveVideo = NoVideo
    /\ hotkeyState = IdleHotkeyState
    /\ indicator = NoIndicator
    /\ duplicates = <<>>
    /\ autoHideTimer = "null"
    /\ navTimer = FALSE
    /\ phase = "ready"
    /\ pageState = "active"
    /\ steps = 0
    /\ StoreIdle
    /\ ScriptIdle

HotkeyKeyDown ==
    /\ \E event \in HotkeyEvents : Commit(HandleKeyDown(World, event, {}))
    /\ UNCHANGED <<phase, pageState, steps>>

HotkeyKeyUp ==
    /\ \E event \in HotkeyEvents : Commit(HandleKeyUp(World, event, {}))
    /\ UNCHANGED <<phase, pageState, steps>>

HotkeyNext ==
    \/ HotkeyKeyDown
    \/ HotkeyKeyUp

HotkeySpec == HotkeyInit /\ [][HotkeyNext]_vars

(***************************************************************************)
(* The video registry on its own: one call of a registry method on any     *)
(* registry the controller can have built up (videos tracked or not,       *)
(* attached or not, playing or not, boosted or not, of either size), with  *)
(* the keyboard idle.  A video that is not boosted plays at the default    *)
(* rate, a boosted one at the default multiplier; the rate recorded for a  *)
(* tracked video is the default rate.  A detached video has an empty       *)
(* bounding rectangle; the videos that play are among the attached ones.   *)
(***************************************************************************)
RegistryAreas == {1, 2}

RegistryLayouts(att) ==
    {a \in [Videos -> RegistryAreas \cup {0}] :
        \A v \in Videos : (a[v] = 0) = ~att[v]}

RegistryPlaying(att) ==
    {p \in [Videos -> BOOLEAN] : \A v \in Videos : p[v] => att[v]}

RegistryRecords ==
    [originalRate : {DefaultPlaybackRate}, isSpeedBoosted : BOOLEAN,
     lastInteraction : Times]

RegistryMaps == UNION {[S -> RegistryRecords] : S \in SUBSET Videos}

RegistryInit ==
    /\ attached \in [Videos -> BOOLEAN]
    /\ hidden = [v \in Videos |-> FALSE]
    /\ area \in RegistryLayouts(attached)
    /\ bodyObserved = TRUE
    /\ playing \in RegistryPlaying(attached)
    /\ trackedVideos \in RegistryMaps
    /\ playbackRate =
           [v \in Videos |->
               IF v \in DOMAIN trackedVideos /\ trackedVideos[v].isSpeedBoosted
               THEN DefaultMultiplier ELSE DefaultPlaybackRate]
    /\ now = MaxTime
    /\ settings = SpaceSettings
    /\ videoEventListeners = DOMAIN trackedVideos
    /\ lastActiveVideo \in Videos \cup {NoVideo}
    /\ hotkeyState = IdleHotkeyState
    /\ indicator = NoIndicator
    /\ duplicates = <<>>
    /\ autoHideTimer = "null"
    /\ navTimer = FALSE
    /\ phase = "ready"
    /\ pageState = "active"
    /\ steps = 0
    /\ StoreIdle
    /\ ScriptIdle

\* One call per run.
RegistryCall == steps = 0 /\ steps' = 1 /\ UNCHANGED <<phase, pageState>>

RegistryGetActiveVideo ==
    /\ RegistryCall
    /\ Commit(GetActiveVideo(World).w)

RegistryApplySpeedBoost ==
    /\ RegistryCall
    /\ \E bad \in ThrowSets :
          Commit(ApplySpeedBoost(World, MaxMultiplier, bad).w)

RegistryRestoreOriginalSpeed ==
    /\ RegistryCall
    /\ \E bad \in ThrowSets : Commit(RestoreOriginalSpeed(World, bad).w)

RegistryResetAllSpeeds ==
    /\ RegistryCall
    /\ \E bad \in ThrowSets : Commit(ResetAllSpeeds(World, bad).w)

RegistryCleanupStaleElements ==
    /\ RegistryCall
    /\ Commit(CleanupStaleElements(World))

RegistryNext ==
    \/ RegistryGetActiveVideo
    \/ RegistryApplySpeedBoost
    \/ RegistryRestoreOriginalSpeed
    \/ RegistryResetAllSpeeds
    \/ RegistryCleanupStaleElements

RegistrySpec == RegistryInit /\ [][RegistryNext]_vars

(***************************************************************************)
(* Settings utilities (shared/settings.js).  A settings object is a record *)
(* that may lack any of its fields; NoSettings stands for null and         *)
(* undefined.  The speed multiplier is an integer rate, so the range       *)
(* [1.25, 5.0] is 2..5.                                                    *)
(***************************************************************************)
DefaultSettings == MkSettings("Backquote", {}, TRUE, 2, TRUE, 2000)

ValidKeys ==
    {"Backquote", "Space", "Enter", "Tab", "Escape", "Backspace", "Delete",
     "ArrowUp", "ArrowDown", "ArrowLeft", "ArrowRight",
     "KeyA", "KeyB", "KeyC", "KeyD", "KeyE", "KeyF", "KeyG", "KeyH", "KeyI",
     "KeyJ", "KeyK", "KeyL", "KeyM", "KeyN", "KeyO", "KeyP", "KeyQ", "KeyR",
     "KeyS", "KeyT", "KeyU", "KeyV", "KeyW", "KeyX", "KeyY", "KeyZ",
     "Digit0", "Digit1", "Digit2", "Digit3", "Digit4", "Digit5", "Digit6",
     "Digit7", "Digit8", "Digit9"}

ValidPositions == {"top-left", "top-right", "bottom-left", "bottom-right"}

MinIndicatorTimeout == 500
MaxIndicatorTimeout == 10000
MaxSpeedMultiplier == 5

IsNull(s) == "isNull" \in DOMAIN s

Has(r, f) == f \in DOMAIN r

\* speed < 1.25 || speed > 5.0, with 1.25 as 5/4
SpeedOutOfRange(speed) == speed * 4 < 5 \/ speed > MaxSpeedMultiplier

TimeoutOutOfRange(timeout) ==
    timeout < MinIndicatorTimeout \/ timeout > MaxIndicatorTimeout

HotkeyErrors(hotkey) ==
    {e \in {"Invalid hotkey", "Invalid modifiers", "Hotkey enabled must be a boolean"} :
        \/ e = "Invalid hotkey"
             /\ Has(hotkey, "key") /\ hotkey.key # "" /\ hotkey.key \notin ValidKeys
        \/ e = "Invalid modifiers"
             /\ Has(hotkey, "modifiers") /\ ~(hotkey.modifiers \subseteq ModifierNames)
        \/ e = "Hotkey enabled must be a boolean" /\ ~Has(hotkey, "enabled")}

UiErrors(ui) ==
    {e \in {"Invalid indicator position", "Indicator timeout must be a number between 500 and 10000"} :
        \/ e = "Invalid indicator position"
             /\ Has(ui, "indicatorPosition")
             /\ ui.indicatorPosition \notin ValidPositions
        \/ e = "Indicator timeout must be a number between 500 and 10000"
             /\ Has(ui, "indicatorTimeout")
             /\ TimeoutOutOfRange(ui.indicatorTimeout)}

SpeedErrors(s) ==
    IF Has(s, "speedMultiplier") /\ SpeedOutOfRange(s.speedMultiplier)
    THEN {"Speed multiplier must be a number between 1.25 and 5.0"} ELSE {}

\* validateSettings: { isValid, errors }.  The flags of platforms and
\* ui.showIndicator are booleans in every object of the model.
ValidateSettings(s) ==
    IF IsNull(s)
    THEN [isValid |-> FALSE, errors |-> {"Settings must be an object"}]
    ELSE LET errors ==
                 (IF Has(s, "hotkey") THEN HotkeyErrors(s.hotkey) ELSE {})
                 \cup SpeedErrors(s)
                 \cup (IF Has(s, "ui") THEN UiErrors(s.ui) ELSE {})
         IN  [isValid |-> errors = {}, errors |-> errors]

\* Object.assign(target, source)
Assign(target, source) ==
    [f \in DOMAIN target \cup DOMAIN source |->
        IF f \in DOMAIN source THEN source[f] ELSE target[f]]

MergeWithDefaults(userSettings) ==
    IF IsNull(userSettings) THEN DefaultSettings
    ELSE [hotkey |-> IF Has(userSettings, "hotkey")
                     THEN Assign(DefaultSettings.hotkey, userSettings.hotkey)
                     ELSE DefaultSettings.hotkey,
          speedMultiplier |-> IF Has(userSettings, "speedMultiplier")
                              THEN userSettings.speedMultiplier
                              ELSE DefaultSettings.speedMultiplier,
          platforms |-> IF Has(userSettings, "platforms")
                        THEN Assign(DefaultSettings.platforms, userSettings.platforms)
                        ELSE DefaultSettings.platforms,
          ui |-> IF Has(userSettings, "ui")
                 THEN Assign(DefaultSettings.ui, userSettings.ui)
                 ELSE DefaultSettings.ui]

\* loadSettings on invalid stored settings: the defaults, with the valid
\* parts of what is stored.
MigrateStored(storedSettings) ==
    LET h == IF Has(storedSettings, "hotkey") THEN storedSettings.hotkey ELSE <<>>
        u == IF Has(storedSettings, "ui") THEN storedSettings.ui ELSE <<>>
        d == DefaultSettings
    IN  [hotkey |->
            [key |-> IF Has(h, "key") /\ h.key \in ValidKeys
                     THEN h.key ELSE d.hotkey.key,
             modifiers |-> IF Has(h, "modifiers")
                           THEN h.modifiers \cap ModifierNames
                           ELSE d.hotkey.modifiers,
             enabled |-> IF Has(h, "enabled") THEN h.enabled ELSE d.hotkey.enabled],
         speedMultiplier |->
            IF Has(storedSettings, "speedMultiplier")
               /\ ~SpeedOutOfRange(storedSettings.speedMultiplier)
            THEN storedSettings.speedMultiplier ELSE d.speedMultiplier,
         platforms |->
            [p \in PlatformNames |->
                IF Has(storedSettings, "platforms") /\ Has(storedSettings.platforms, p)
                THEN storedSettings.platforms[p] ELSE d.platforms[p]],
         ui |->
            [showIndicator |-> IF Has(u, "showIndicator")
                               THEN u.showIndicator ELSE d.ui.showIndicator,
             indicatorPosition |-> IF Has(u, "indicatorPosition")
                                      /\ u.indicatorPosition \in ValidPositions
                                   THEN u.indicatorPosition
                                   ELSE d.ui.indicatorPosition,
             indicatorTimeout |-> IF Has(u, "indicatorTimeout")
                                     /\ ~TimeoutOutOfRange(u.indicatorTimeout)
                                  THEN u.indicatorTimeout
                                  ELSE d.ui.indicatorTimeout]]

(***************************************************************************)
(* The store and the service worker.  "k" holds the stored object, the     *)
(* sendResponse calls of the running handler and the SETTINGS_UPDATED      *)
(* messages in flight to the tab; k.listening tells whether the tab's      *)
(* content script has registered its message listener (sendMessage to a    *)
(* tab without one rejects, and the rejection is ignored).  A              *)
(* chrome.storage call may fail (getFails, setFails).                      *)
(***************************************************************************)
MaxInbox == 2           \* SETTINGS_UPDATED messages in flight or waiting to be sent

Worker ==
    [stored |-> stored, responses |-> <<>>, inbox |-> inbox,
     delayedSends |-> delayedSends, listening |-> phase = "ready"]

\* broadcastSettingsUpdate, for the one tab of the model.
BroadcastSettingsUpdate(k, newSettings) ==
    IF k.listening THEN [k EXCEPT !.inbox = Append(@, newSettings)] ELSE k

\* chrome.storage.sync.set, and the onChanged listener of the service worker
\* that the change starts: it broadcasts the new value.
StorageSet(k, value) ==
    BroadcastSettingsUpdate([k EXCEPT !.stored = value], value)

\* A save that does not validate.
SaveSettingsUnchecked(k, newSettings, setFails) ==
    IF setFails THEN [ok |-> FALSE, k |-> k]
    ELSE [ok |-> TRUE, k |-> StorageSet(k, newSettings)]

\* saveSettings: the store after it, and the boolean it resolves to.
SaveSettings(k, newSettings, setFails) ==
    IF ~ValidateSettings(newSettings).isValid THEN [ok |-> FALSE, k |-> k]
    ELSE IF setFails THEN [ok |-> FALSE, k |-> k]
    ELSE [ok |-> TRUE, k |-> StorageSet(k, newSettings)]

\* loadSettings: the store after it, and the settings it resolves to.
LoadSettings(k, getFails, setFails) ==
    IF getFails THEN [settings |-> DefaultSettings, k |-> k]
    ELSE IF IsNull(k.stored)
    THEN [settings |-> DefaultSettings,
          k |-> SaveSettings(k, DefaultSettings, setFails).k]
    ELSE IF ~ValidateSettings(k.stored).isValid
    THEN [settings |-> MigrateStored(k.stored),
          k |-> SaveSettings(k, MigrateStored(k.stored), setFails).k]
    ELSE [settings |-> MergeWithDefaults(k.stored), k |-> k]

ResetToDefaults(k, setFails) ==
    [settings |-> DefaultSettings,
     k |-> SaveSettings(k, DefaultSettings, setFails).k]

SendResponse(k, response) == [k EXCEPT !.responses = Append(@, response)]

\* loadSettings, saveSettings and resetToDefaults catch every error of the
\* store themselves: the catch blocks of the three handlers are not entered.
HandleGetSettings(k, getFails, setFails) ==
    LET l == LoadSettings(k, getFails, setFails)
    IN  SendResponse(l.k, [success |-> TRUE, settings |-> l.settings])

\* The outcome of handleUpdateSettings once saveSettings has resolved to sv.
AfterSave(sv, newSettings) ==
    IF ~sv.ok
    THEN SendResponse(sv.k, [success |-> FALSE, error |-> "Invalid settings provided"])
    ELSE SendResponse(BroadcastSettingsUpdate(sv.k, newSettings), [success |-> TRUE])

\* A handler that answers a rejected save and then carries on.
HandleUpdateSettingsFallingThrough(k, newSettings, setFails) ==
    LET sv == SaveSettings(k, newSettings, setFails)
        answered == IF sv.ok THEN sv.k
                    ELSE SendResponse(sv.k, [success |-> FALSE,
                                             error |-> "Invalid settings provided"])
    IN  SendResponse(BroadcastSettingsUpdate(answered, newSettings),
                     [success |-> TRUE])

HandleUpdateSettings(k, newSettings, setFails) ==
    AfterSave(SaveSettings(k, newSettings, setFails), newSettings)

HandleResetSettings(k, setFails) ==
    LET r == ResetToDefaults(k, setFails)
    IN  SendResponse(BroadcastSettingsUpdate(r.k, r.settings),
                     [success |-> TRUE, settings |-> r.settings])

\* The chrome.runtime.onMessage listener of the service worker.
OnMessage(k, message, getFails, setFails) ==
    CASE message.type = "GET_SETTINGS" -> HandleGetSettings(k, getFails, setFails)
      [] message.type = "UPDATE_SETTINGS" ->
             HandleUpdateSettings(k, message.settings, setFails)
      [] message.type = "RESET_SETTINGS" -> HandleResetSettings(k, setFails)
      [] OTHER -> k

\* chrome.tabs.onUpdated, status complete: the settings are loaded, and a
\* timeout of 100 ms is set whose callback sends them to the tab.
OnTabUpdated(k, getFails, setFails) ==
    LET l == LoadSettings(k, getFails, setFails)
    IN  [l.k EXCEPT !.delayedSends = Append(@, l.settings)]

\* The callback of the oldest such timeout: tabs.sendMessage with the
\* settings the handler had loaded.
DelayedSend(k) ==
    [BroadcastSettingsUpdate(k, Head(k.delayedSends))
        EXCEPT !.delayedSends = Tail(@)]

\* chrome.runtime.onInstalled and onStartup: the settings are loaded.
OnStartup(k, getFails, setFails) == LoadSettings(k, getFails, setFails).k

\* chrome.storage.onChanged for a change that sync brings from another
\* device.
OnStorageChanged(k, newValue) ==
    IF IsNull(newValue) THEN [k EXCEPT !.stored = newValue]
    ELSE StorageSet(k, newValue)

(***************************************************************************)
(* The settings store with one tab: the messages of the popup and of the   *)
(* tab's content script, the events of the browser, and the content        *)
(* script's side of GET_SETTINGS and SETTINGS_UPDATED.                     *)
(***************************************************************************)
MultiplierOnlySettings == [speedMultiplier |-> 3]

\* Objects an UPDATE_SETTINGS message carries.
RequestSettings ==
    {SpaceSettings, CtrlEscapeSettings, MultiplierOnlySettings,
     BadMultiplierSettings, ZeroSettings, NoSettings}

\* Objects sync brings from other devices and earlier versions.
SyncedSettings ==
    {NoSettings, CtrlEscapeSettings, MultiplierOnlySettings, BadMultiplierSettings}

Messages ==
    {[type |-> t] : t \in {"GET_SETTINGS", "RESET_SETTINGS", "GET_STATUS"}}
    \cup {[type |-> "UPDATE_SETTINGS", settings |-> n] : n \in RequestSettings}

StoreInit ==
    /\ attached = [v \in Videos |-> TRUE]
    /\ hidden = [v \in Videos |-> FALSE]
    /\ area = PageLayout
    /\ bodyObserved = TRUE
    /\ playing = [v \in Videos |-> FALSE]
    /\ playbackRate = [v \in Videos |-> DefaultPlaybackRate]
    /\ now = 1
    /\ settings = NoSettings
    /\ trackedVideos = <<>>
    /\ videoEventListeners = {}
    /\ lastActiveVideo = NoVideo
    /\ hotkeyState = IdleHotkeyState
    /\ indicator = NoIndicator
    /\ duplicates = <<>>
    /\ autoHideTimer = "null"
    /\ navTimer = FALSE
    /\ phase = "loading"
    /\ pageState = "active"
    /\ steps = 0
    /\ stored \in SyncedSettings
    /\ request = NoRequest
    /\ responses = <<>>
    /\ inbox = <<>>
    /\ delayedSends = <<>>
    /\ pendingLoad = NotLoading
    /\ ScriptIdle

\* The store after a handler that answers a message.
CommitWorker(k) ==
    /\ Len(k.inbox) + Len(k.delayedSends) <= MaxInbox
    /\ stored' = k.stored
    /\ responses' = k.responses
    /\ inbox' = k.inbox
    /\ delayedSends' = k.delayedSends
    /\ UNCHANGED pendingLoad

\* The store after a handler of a browser event.
CommitStore(k) ==
    /\ Len(k.inbox) + Len(k.delayedSends) <= MaxInbox
    /\ stored' = k.stored
    /\ inbox' = k.inbox
    /\ delayedSends' = k.delayedSends
    /\ UNCHANGED pendingLoad

\* A message of the popup.
WorkerOnMessage ==
    /\ \E message \in Messages, getFails \in BOOLEAN, setFails \in BOOLEAN :
          /\ request' = message
          /\ CommitWorker(OnMessage(Worker, message, getFails, setFails))
    /\ CommitPage(World)
    /\ UNCHANGED <<phase, pageState, steps>>

\* loadInitialSettings: GET_SETTINGS and its callback.
TabLoadsSettings ==
    /\ phase = "loading"
    /\ \E getFails \in BOOLEAN, setFails \in BOOLEAN :
          LET k == OnMessage(Worker, [type |-> "GET_SETTINGS"], getFails, setFails)
          IN  /\ request' = [type |-> "GET_SETTINGS"]
              /\ CommitWorker(k)
              /\ CommitPage([World EXCEPT !.settings =
                                IF k.responses[1].success
                                THEN k.responses[1].settings ELSE settings])
    /\ phase' = "ready"
    /\ UNCHANGED <<pageState, steps>>

\* loadInitialSettings when chrome.runtime.lastError is set (the service
\* worker is not reachable).
TabLoadFails ==
    /\ phase = "loading"
    /\ phase' = "ready"
    /\ CommitPage(World)
    /\ UNCHANGED <<pageState, steps, storeVars>>

\* The SETTINGS_UPDATED case of the content script's message listener.
TabReceivesSettingsUpdated ==
    /\ inbox # <<>>
    /\ CommitPage([World EXCEPT !.settings = Head(inbox)])
    /\ inbox' = Tail(inbox)
    /\ UNCHANGED <<phase, pageState, steps, stored, request, responses, delayedSends,
                   pendingLoad>>

WorkerOnTabUpdated ==
    /\ \E getFails \in BOOLEAN, setFails \in BOOLEAN :
          CommitStore(OnTabUpdated(Worker, getFails, setFails))
    /\ CommitPage(World)
    /\ UNCHANGED <<phase, pageState, steps, request, responses>>

WorkerOnStorageChanged ==
    /\ \E newValue \in SyncedSettings :
          CommitStore(OnStorageChanged(Worker, newValue))
    /\ CommitPage(World)
    /\ UNCHANGED <<phase, pageState, steps, request, responses>>

WorkerOnStartup ==
    /\ \E getFails \in BOOLEAN, setFails \in BOOLEAN :
          CommitStore(OnStartup(Worker, getFails, setFails))
    /\ CommitPage(World)
    /\ UNCHANGED <<phase, pageState, steps, request, responses>>

\* The timeout of tabs.onUpdated runs.
WorkerDelayedSend ==
    /\ delayedSends # <<>>
    /\ CommitStore(DelayedSend(Worker))
    /\ CommitPage(World)
    /\ UNCHANGED <<phase, pageState, steps, request, responses>>

StoreNext ==
    \/ WorkerOnStartup
    \/ WorkerOnMessage
    \/ TabLoadsSettings
    \/ TabLoadFails
    \/ TabReceivesSettingsUpdated
    \/ WorkerOnTabUpdated
    \/ WorkerDelayedSend
    \/ WorkerOnStorageChanged

StoreSpec == StoreInit /\ [][StoreNext]_vars

(***************************************************************************)
(* Vocabulary of the properties.                                           *)
(***************************************************************************)
Idle == ~hotkeyState.isPressed
Boosted == hotkeyState.isPressed

FullyReset(w) == w.hotkeyState = IdleHotkeyState

\* The target is a text input, a textarea or a select, or it is or lies
\* inside a contenteditable element.
InTextInputContext(target) ==
    \/ target[1].tagName \in {"INPUT", "TEXTAREA", "SELECT"}
    \/ \E i \in 1..Len(target) :
          target[i].contentEditable \in {"true", "plaintext-only"}

\* The event is the configured binding: its key, and exactly its modifiers.
MatchesBinding(s, event) ==
    /\ NormalizeKey(event.key) = NormalizeKey(s.hotkey.key)
    /\ event.modifiers = s.hotkey.modifiers

\* The video getActiveVideo selects in the current state (NoVideo if none).
Selected == GetActiveVideo(World).video

\* The page after the nodes holding "removed" left the document.
Detach(w, removed) ==
    [w EXCEPT !.attached = [v \in Videos |-> w.attached[v] /\ v \notin removed]]

(***************************************************************************)
(* C1.  Activation.                                                        *)
(***************************************************************************)
C1_Pre(event) ==
    /\ Active
    /\ Idle
    /\ HasHotkeySettings(settings)
    /\ settings.hotkey.enabled
    /\ ~InTextInputContext(event.target)
    /\ MatchesBinding(settings, event)
    /\ \E v \in Videos : IsValidVideo(World, v)

\* C1 as stated: from Idle, a keydown that matches the configured binding
\* (settings loaded, hotkey enabled, target outside any text-input or
\* contenteditable context, at least one valid video) moves the state to
\* Boosted, sets the selected active video's rate to the multiplier of the
\* settings and shows the indicator with that multiplier.
C1_Stated(w, v, m) ==
    /\ w.hotkeyState.isPressed
    /\ w.playbackRate[v] = m
    /\ w.indicator = [state |-> "shown", speed |-> m]

C1_Amended(w, event, v, m) ==
    /\ w.hotkeyState.isPressed
    /\ w.hotkeyState.currentKey = NormalizeKey(event.key)
    /\ w.hotkeyState.preventMultipleActivations
    /\ IsBoosted(w, v)
    /\ w.playbackRate[v] = IF IsBoosted(World, v) THEN playbackRate[v] ELSE m
    /\ \A u \in Videos \ {v} : w.playbackRate[u] = playbackRate[u]
    /\ w.indicator = IF settings.ui.showIndicator
                     THEN [state |-> "shown", speed |-> m]
                     ELSE indicator

C1_NoThrow(v, bad) == v \notin bad \/ IsBoosted(World, v)

C2_AsStated ==
    \A event \in KeyUpEvents :
        (/\ Active
         /\ Boosted
         /\ NormalizeKey(event.key) = hotkeyState.currentKey) =>
            LET w == HandleKeyUp(World, event, NoThrow)
            IN  /\ ~w.hotkeyState.isPressed
                /\ \A v \in Videos :
                      IsBoosted(World, v) =>
                          w.playbackRate[v] = trackedVideos[v].originalRate
                /\ w.indicator.state # "shown"

(***************************************************************************)
(* C3.  Blur and tab hidden while boosted.                                 *)
(***************************************************************************)
\* C3 as stated: when the window loses focus or the tab becomes hidden while
\* the state is Boosted, then on return the state is Idle, every tracked
\* video that was boosted has its rate restored to its originalRate with the
\* flag cleared, and the indicator is hidden or hiding.
C3_AsStated ==
    (Active /\ Boosted) =>
        \A w \in {OnWindowBlur(World, NoThrow),
                  OnVisibilityChange(World, TRUE, NoThrow)} :
            /\ ~w.hotkeyState.isPressed
            /\ \A v \in Videos :
                  IsBoosted(World, v) =>
                      /\ w.playbackRate[v] = trackedVideos[v].originalRate
                      /\ ~IsBoosted(w, v)
            /\ w.indicator.state # "shown"

(***************************************************************************)
(* C4.  Boost, then restore.                                               *)
(***************************************************************************)
Multipliers == {1, 2, 16}

\* The rate a video had before its boost: the recorded one if it is flagged
\* boosted already, its current one otherwise.
PreBoostRate(v) ==
    IF IsBoosted(World, v) THEN trackedVideos[v].originalRate
    ELSE playbackRate[v]

\* applySpeedBoost, then restoreOriginalSpeed; g is the result of the
\* getActiveVideo call applySpeedBoost starts with.
BoostThenRestore(g, m, badApply, badRestore) ==
    RestoreOriginalSpeed(BoostActive(g, m, badApply).w, badRestore).w

\* C4 as stated: for any selected active video and any multiplier in (0,16],
\* applySpeedBoost(multiplier) immediately followed by restoreOriginalSpeed()
\* leaves the video's rate equal to its rate before the boost and its
\* boosted flag false.
RoundTrip(v, w) ==
    /\ w.playbackRate[v] = PreBoostRate(v)
    /\ ~IsBoosted(w, v)

RoundTripsOf(g, restoreThrows) ==
    g.video # NoVideo =>
        \A m \in Multipliers, badApply \in ThrowSets, badRestore \in restoreThrows :
            RoundTrip(g.video, BoostThenRestore(g, m, badApply, badRestore))

C5_AsStated ==
    \A removed \in SUBSET Videos :
        (/\ Ready
         /\ Boosted
         /\ lastActiveVideo \in removed
         /\ \A v \in removed : attached[v]) =>
            LET w == HandleDOMMutations(Detach(World, removed), removed, NoThrow)
            IN  /\ ~w.hotkeyState.isPressed
                /\ \A v \in Videos : ~IsBoosted(w, v)
                /\ ResetAllSpeeds(w, NoThrow).w = w

(***************************************************************************)
(* C6.  Events that reset the hotkey state.                                *)
(***************************************************************************)
\* C6 as stated: after window blur, tab hidden, SPA navigation and removal of
\* the active video, each while boosted, the hotkey state is fully reset:
\* isPressed false, currentKey null, the four modifier flags false and the
\* re-entry guard false.
C6_AsStated ==
    (Ready /\ Boosted) =>
        /\ FullyReset(OnWindowBlur(World, NoThrow))
        /\ FullyReset(OnVisibilityChange(World, TRUE, NoThrow))
        /\ FullyReset(HandleNavigation(World, NoThrow))
        /\ \A removed \in SUBSET Videos :
              (lastActiveVideo \in removed /\ \A v \in removed : attached[v]) =>
                  FullyReset(HandleDOMMutations(Detach(World, removed),
                                                removed, NoThrow))

(***************************************************************************)
(* C7.  Leaving the pressed state.                                         *)
(***************************************************************************)
\* C7: every transition that sets isPressed to false also sets currentKey to
\* null, the four modifier flags to false and preventMultipleActivations to
\* false, in the same step.
C7_ResetTogether ==
    [][(hotkeyState.isPressed /\ ~hotkeyState'.isPressed) =>
           hotkeyState' = IdleHotkeyState]_vars

\* The second event ended a boost that the first, a keydown with ctrl held,
\* had started.
C7_Witness ==
    /\ steps = 2
    /\ ~hotkeyState.isPressed
    /\ indicator.speed = CtrlEscapeSettings.speedMultiplier
    /\ indicator.state = "hiding"

(***************************************************************************)
(* C8.  Matching the configured hotkey.                                    *)
(***************************************************************************)
\* C8: a keyboard event matches the configured hotkey only if its normalized
\* key equals the configured key and the set of modifiers held is exactly
\* the configured set: one extra or one missing modifier rejects the match,
\* and no keydown that does not match starts a boost.
C8_ExactMatch ==
    \A event \in HotkeyEvents :
        LET w == UpdateModifierState(World, event)
            configured == settings.hotkey.modifiers
        IN  /\ IsConfiguredHotkey(w, event) => MatchesBinding(settings, event)
            /\ \A m \in ModifierNames :
                  event.modifiers \in {configured \cup {m}, configured \ {m}}
                  /\ event.modifiers # configured
                      => ~IsConfiguredHotkey(w, event)
            /\ (Idle /\ HandleKeyDown(World, event, NoThrow).hotkeyState.isPressed)
                  => MatchesBinding(settings, event)

\* A binding with two modifiers has matched: the boost is on, with exactly
\* these two modifiers held.
C8_Witness ==
    /\ hotkeyState.isPressed
    /\ settings.hotkey.modifiers = {"ctrl", "shift"}
    /\ hotkeyState.modifiers =
           [m \in ModifierNames |-> m \in {"ctrl", "shift"}]
    /\ hotkeyState.currentKey = "Escape"

(***************************************************************************)
(* C9.  Keydowns that must do nothing.                                     *)
(***************************************************************************)
\* C9 as stated: a keydown changes no video's rate and leaves the hotkey
\* state unchanged whenever settings are not loaded, the hotkey is disabled,
\* or the target is a text input, textarea, select, or an element that is or
\* lies inside a contenteditable element.
C9_AsStated ==
    \A event \in KeyEvents :
        (/\ Active
         /\ \/ ~HasHotkeySettings(settings)
            \/ ~settings.hotkey.enabled
            \/ InTextInputContext(event.target)) =>
            LET w == HandleKeyDown(World, event, NoThrow)
            IN  /\ w.playbackRate = playbackRate
                /\ w.hotkeyState = hotkeyState

(***************************************************************************)
(* C10.  Failed activation.                                                *)
(***************************************************************************)
\* Why the boost cannot be applied: no active video, a multiplier outside
\* (0,16], or a rate assignment that is made and throws.
C10_CauseAt(v, bad) ==
    \/ v = NoVideo
    \/ ~ValidMultiplier(SpeedMultiplier(settings))
    \/ /\ v \in bad
       /\ ~IsBoosted(World, v)

C10_Cause(bad) == C10_CauseAt(Selected, bad)

\* C10 as stated: if the boost cannot be applied on activation (no active
\* video, invalid multiplier, or the rate assignment throws), the hotkey
\* state is back to Idle when the keydown handler returns, the handler has
\* shown no indicator, and every video's rate is unchanged.
C10_Stated(w) ==
    /\ FullyReset(w)
    /\ w.indicator = indicator
    /\ w.playbackRate = playbackRate

C10_AsStated ==
    \A event \in KeyEvents, bad \in ThrowSets :
        (/\ Active
         /\ Idle
         /\ HasHotkeySettings(settings)
         /\ settings.hotkey.enabled
         /\ ~InTextInputContext(event.target)
         /\ MatchesBinding(settings, event)
         /\ C10_Cause(bad)) =>
            C10_Stated(HandleKeyDown(World, event, bad))

(***************************************************************************)
(* C11.  A boost of a video that is boosted already.                       *)
(***************************************************************************)
\* applySpeedBoost on the result g of its getActiveVideo call, for a video v
\* that is boosted in g.w.
C11_Again(v, g, m, bad) ==
    LET a == BoostActive(g, m, bad)
    IN  /\ a.ok
        /\ IsBoosted(a.w, v)
        /\ a.w.playbackRate[v] = g.w.playbackRate[v]
        /\ a.w.trackedVideos[v].originalRate = g.w.trackedVideos[v].originalRate

C11_Second(v, g) ==
    /\ g.video = v
    /\ \A m2 \in Multipliers, bad \in ThrowSets : C11_Again(v, g, m2, bad)

C11_Twice(v, first, m) ==
    first.ok =>
        /\ first.w.playbackRate[v] = m
        /\ first.w.trackedVideos[v].originalRate = playbackRate[v]
        /\ C11_Second(v, GetActiveVideo(first.w))

C11_At(g) ==
    g.video # NoVideo =>
        IF IsBoosted(World, g.video)
        THEN /\ g.w.playbackRate[g.video] = playbackRate[g.video]
             /\ g.w.trackedVideos[g.video].originalRate
                    = trackedVideos[g.video].originalRate
             /\ \A m \in Multipliers, bad \in ThrowSets :
                   C11_Again(g.video, g, m, bad)
        ELSE \A m \in Multipliers :
                C11_Twice(g.video, BoostActive(g, m, NoThrow), m)

\* C11: while the active video is boosted already, a further applySpeedBoost
\* with the same or another valid multiplier returns success and leaves the
\* rate at the first-applied multiplier and the recorded originalRate as
\* they are.
C11_Idempotent == Ready => C11_At(GetActiveVideo(World))

\* The active video is boosted to 3x; a further boost by 16 succeeds and
\* leaves it at 3x.
C11_Witness ==
    /\ Ready
    /\ Selected # NoVideo
    /\ IsBoosted(World, Selected)
    /\ playbackRate[Selected] = CtrlEscapeSettings.speedMultiplier
    /\ trackedVideos[Selected].originalRate = DefaultPlaybackRate
    /\ ApplySpeedBoost(World, MaxMultiplier, NoThrow).ok
    /\ ApplySpeedBoost(World, MaxMultiplier, NoThrow).w.playbackRate[Selected]
           = CtrlEscapeSettings.speedMultiplier

(***************************************************************************)
(* C12.  Arguments that are no multiplier.                                 *)
(***************************************************************************)
InvalidArguments ==
    {NumArg(0), NumArg(-1), NumArg(MaxMultiplier + 1)}
        \cup {OtherArg(k) : k \in ArgumentKinds}

C12_Rejected(a) ==
    /\ ~a.ok
    /\ a.w.playbackRate = playbackRate
    /\ \A v \in Videos : IsBoosted(a.w, v) = IsBoosted(World, v)

\* C12 as stated: applySpeedBoost called with a multiplier that is not a
\* finite number in (0,16] (zero, negative, above 16, NaN, infinite, a
\* string, null or undefined) returns failure and changes no video's rate
\* or boosted flag.
C12_AsStated ==
    Ready =>
        \A arg \in InvalidArguments, bad \in ThrowSets :
            C12_Rejected(ApplySpeedBoostWith(World, arg, bad))

(***************************************************************************)
(* C13.  A restore whose rate assignment throws.                           *)
(***************************************************************************)
C13_Failed(v, r) ==
    /\ ~r.ok
    /\ v \in DOMAIN r.w.trackedVideos
    /\ r.w.trackedVideos[v].originalRate = trackedVideos[v].originalRate
    /\ r.w.trackedVideos[v].isSpeedBoosted
    /\ r.w.playbackRate = playbackRate

C13_At(g) ==
    (g.video # NoVideo /\ IsBoosted(World, g.video)) =>
        \A bad \in SUBSET Videos :
            g.video \in bad => C13_Failed(g.video, RestoreActive(g, bad))

\* C13: if assigning the rate throws during restoreOriginalSpeed, the call
\* returns failure and the tracked state of the video (originalRate and
\* boosted flag) is what it was before the call.
C13_RestoreThrows == Ready => C13_At(GetActiveVideo(World))

\* A keyup whose restore threw has left the active video boosted, with the
\* hotkey state back to idle.
C13_Witness ==
    /\ steps = 2
    /\ ~hotkeyState.isPressed
    /\ lastActiveVideo # NoVideo
    /\ IsBoosted(World, lastActiveVideo)
    /\ playbackRate[lastActiveVideo] = SpeedMultiplier(settings)
    /\ trackedVideos[lastActiveVideo].originalRate = DefaultPlaybackRate
    /\ ~RestoreOriginalSpeed(World, Videos).ok

(***************************************************************************)
(* C14.  resetAllSpeeds with rate assignments that throw.                  *)
(***************************************************************************)
TrackedBoosted == {v \in Videos : IsBoosted(World, v)}

C14_Reset(r, restored, failed) ==
    /\ r.count = Cardinality(restored)
    /\ \A v \in restored :
          /\ r.w.playbackRate[v] = trackedVideos[v].originalRate
          /\ v \in DOMAIN r.w.trackedVideos
          /\ ~r.w.trackedVideos[v].isSpeedBoosted
    /\ \A v \in failed :
          /\ r.w.playbackRate[v] = playbackRate[v]
          /\ IsBoosted(r.w, v)

\* C14: resetAllSpeeds attempts a restore on every tracked boosted video even
\* when the rate assignment throws for some of them (each video whose
\* assignment does not throw is restored, wherever it comes in the loop),
\* returns the number of videos it restored, and leaves each restored video
\* with its rate at its originalRate and its boosted flag false.
C14_ResetAll ==
    \A bad \in SUBSET Videos :
        C14_Reset(ResetAllSpeeds(World, bad), TrackedBoosted \ bad,
                  TrackedBoosted \cap bad)

\* Two boosted videos, the first one's setter throws: the second one is
\* restored to a rate other than the one it plays at, and the count is 1.
C14_Witness ==
    /\ TrackedBoosted = {1, 2}
    /\ trackedVideos[2].originalRate # playbackRate[2]
    /\ ResetAllSpeeds(World, {1}).count = 1
    /\ ResetAllSpeeds(World, {1}).w.playbackRate[2] = trackedVideos[2].originalRate
    /\ IsBoosted(ResetAllSpeeds(World, {1}).w, 1)

(***************************************************************************)
(* C15 - C17.  The tie-break of getActiveVideo.                            *)
(***************************************************************************)
\* The candidates: the valid videos of the page.
Candidates == {v \in Videos : IsValidVideo(World, v)}

PlayingCandidates == {v \in Candidates : playing[v]}

\* The first of a set of videos in discovery (document) order.
FirstOf(S) == CHOOSE v \in S : \A u \in S : v <= u

\* The timestamp the selection sees: a video that is not tracked yet is
\* tracked by the detection, with the current time.
SeenInteraction(v) ==
    IF v \in DOMAIN trackedVideos THEN trackedVideos[v].lastInteraction ELSE now

MostRecent(S) ==
    FirstOf({v \in S : \A u \in S : SeenInteraction(u) <= SeenInteraction(v)})

Largest(S) == FirstOf({v \in S : \A u \in S : area[u] <= area[v]})

\* C15: if exactly one candidate is playing, getActiveVideo returns that one,
\* whatever the sizes, the timestamps and the previously selected video.
C15_OnePlaying ==
    Cardinality(PlayingCandidates) = 1 => Selected \in PlayingCandidates

\* Both videos are candidates; the one that plays is the smaller one, the
\* one interacted with longer ago, and not the previously selected one.
C15_Witness ==
    /\ Candidates = {1, 2}
    /\ PlayingCandidates = {1}
    /\ area[1] < area[2]
    /\ DOMAIN trackedVideos = {1, 2}
    /\ trackedVideos[1].lastInteraction < trackedVideos[2].lastInteraction
    /\ lastActiveVideo = 2
    /\ Selected = 1

\* C16: if several candidates are playing, getActiveVideo returns the playing
\* candidate with the greatest lastInteraction, and among those with equal
\* greatest timestamps the one found first in discovery order.
C16_SeveralPlaying ==
    Cardinality(PlayingCandidates) > 1 => Selected = MostRecent(PlayingCandidates)

\* Both videos play; the second was interacted with last, the first is the
\* larger and the previously selected one.
C16_Witness ==
    /\ PlayingCandidates = {1, 2}
    /\ DOMAIN trackedVideos = {1, 2}
    /\ trackedVideos[1].lastInteraction < trackedVideos[2].lastInteraction
    /\ area[2] < area[1]
    /\ lastActiveVideo = 1
    /\ Selected = 2

C17_Expected ==
    IF lastActiveVideo \in Candidates THEN lastActiveVideo
    ELSE Largest(Candidates)

\* C17: if no candidate is playing, getActiveVideo returns the previously
\* selected video whenever it is still among the candidates, and a repeated
\* call returns the same video; only otherwise does it return the candidate
\* with the largest area, the first in discovery order on equal areas.
C17_NonePlaying ==
    (Candidates # {} /\ PlayingCandidates = {}) =>
        /\ Selected = C17_Expected
        /\ GetActiveVideo(GetActiveVideo(World).w).video = Selected

\* No video plays; the previously selected one is the smaller of the two
\* candidates and is selected again.
C17_Witness ==
    /\ Candidates = {1, 2}
    /\ PlayingCandidates = {}
    /\ lastActiveVideo = 1
    /\ area[1] < area[2]
    /\ Selected = 1

(***************************************************************************)
(* C18.  What a selection records.                                         *)
(***************************************************************************)
C18_Recorded(g) ==
    g.video # NoVideo =>
        /\ g.w.lastActiveVideo = g.video
        /\ g.video \in DOMAIN g.w.trackedVideos
        /\ g.w.trackedVideos[g.video].lastInteraction = now

\* C18 as stated: whenever getActiveVideo returns a video, for any number of
\* candidates, the lastInteraction of that video has been set to the current
\* time and the video has been recorded as lastActiveVideo.
C18_AsStated == Ready => C18_Recorded(GetActiveVideo(World))

(***************************************************************************)
(* C19.  Tracked videos are in the document.                               *)
(***************************************************************************)
\* C19 as stated: every video that is a key of the tracked-videos map is
\* attached to the document, in every state reached by any sequence of
\* detections, DOM mutations and video media events.
C19_AsStated == \A v \in DOMAIN trackedVideos : attached[v]

(***************************************************************************)
(* C20.  cleanupStaleElements.                                             *)
(***************************************************************************)
StaleVideos == {v \in DOMAIN trackedVideos : ~attached[v]}

C20_Pruned(w) ==
    /\ DOMAIN w.trackedVideos = DOMAIN trackedVideos \ StaleVideos
    /\ Cardinality(DOMAIN w.trackedVideos) =
           Cardinality(DOMAIN trackedVideos) - Cardinality(StaleVideos)
    /\ \A v \in DOMAIN w.trackedVideos : w.trackedVideos[v] = trackedVideos[v]

\* C20: if N of the M tracked videos have left the document,
\* cleanupStaleElements removes exactly those N entries and leaves the other
\* M-N entries in the map with their state records unchanged.
C20_Prune == C20_Pruned(CleanupStaleElements(World))

\* Two tracked videos, the first detached: the clean-up leaves the second.
C20_Witness ==
    /\ DOMAIN trackedVideos = {1, 2}
    /\ StaleVideos = {1}
    /\ DOMAIN CleanupStaleElements(World).trackedVideos = {2}

(***************************************************************************)
(* The settings store: C21, C24 and C25 are checked under StoreSpec.       *)
(***************************************************************************)
FullyPopulated(s) ==
    /\ Has(s, "hotkey")
    /\ {"key", "modifiers", "enabled"} \subseteq DOMAIN s.hotkey
    /\ Has(s, "speedMultiplier")
    /\ Has(s, "platforms")
    /\ PlatformNames \subseteq DOMAIN s.platforms
    /\ Has(s, "ui")
    /\ {"showIndicator", "indicatorPosition", "indicatorTimeout"} \subseteq DOMAIN s.ui

\* C21: every settings object assigned to the page controller's snapshot,
\* from the GET_SETTINGS response or from a SETTINGS_UPDATED message, has
\* hotkey.key, hotkey.modifiers, hotkey.enabled, speedMultiplier, the four
\* platform flags and the three ui fields.
C21_AsStated == ~IsNull(settings) => FullyPopulated(settings)

\* C22: when the initial settings request fails, the page controller goes
\* on with the built-in default settings as its snapshot: once
\* loadInitialSettings has resolved the controller holds a settings object
\* (the one the store answered with, or the defaults), so that the hotkey
\* handlers run.
C22_AsStated == Ready => ~IsNull(settings) /\ HasHotkeySettings(settings)

\* What C23 says of the state w after the error event of the tracked video v.
C23_Stated(v, w) ==
    /\ IsBoosted(World, v) => w.playbackRate[v] = trackedVideos[v].originalRate
    /\ (hotkeyState.isPressed /\ lastActiveVideo = v) => ~w.hotkeyState.isPressed
    /\ v \notin DOMAIN w.trackedVideos

\* C23: when a tracked video reports a playback error, its boosted rate is
\* restored to originalRate, a boost held on it is deactivated, and the video
\* is removed from the tracked-videos map.
C23_AsStated ==
    Ready =>
        \A v \in DOMAIN trackedVideos \cap videoEventListeners :
            C23_Stated(v, HandleVideoError([World EXCEPT !.playing[v] = FALSE],
                                           v, NoThrow))

KnownRequests == {"GET_SETTINGS", "UPDATE_SETTINGS", "RESET_SETTINGS"}

\* The response shapes of the protocol: {success, settings} for
\* GET_SETTINGS and RESET_SETTINGS, {success, error?} for UPDATE_SETTINGS.
C24_Shape(type, response) ==
    IF type = "UPDATE_SETTINGS"
    THEN /\ Has(response, "success")
         /\ DOMAIN response \subseteq {"success", "error"}
         /\ ~response.success => Has(response, "error")
    ELSE /\ DOMAIN response = {"success", "settings"}
         /\ response.success
         /\ FullyPopulated(response.settings)

C25_Refused(k) ==
    /\ k.stored = stored
    /\ k.inbox = inbox
    /\ Len(k.responses) = 1
    /\ ~k.responses[1].success
    /\ Has(k.responses[1], "error")

\* C25: an UPDATE_SETTINGS request whose settings fail validation leaves the
\* stored settings unchanged, causes no SETTINGS_UPDATED notification, and is
\* answered with success false and an error.
C25_InvalidUpdate ==
    \A n \in RequestSettings, setFails \in BOOLEAN :
        ~ValidateSettings(n).isValid =>
            C25_Refused(OnMessage(Worker, [type |-> "UPDATE_SETTINGS", settings |-> n],
                                  FALSE, setFails))

\* An out-of-range multiplier has been refused while the tab listens and the
\* store holds other settings.
C25_Witness ==
    /\ Ready
    /\ request = [type |-> "UPDATE_SETTINGS", settings |-> BadMultiplierSettings]
    /\ stored = CtrlEscapeSettings
    /\ inbox = <<>>
    /\ ~responses[1].success

(***************************************************************************)
(* The speed indicator on its own: the public show, update and hide of a   *)
(* ready controller, its keyboard handlers and its two timeouts, under     *)
(* every kind of ui settings (timeout 2000, 500 or 0, indicator off).      *)
(***************************************************************************)
IndicatorSettings ==
    {SpaceSettings, CtrlEscapeSettings, NoIndicatorSettings, ZeroSettings}

IndicatorSpeeds == {0, 2, 3}

IndicatorInit ==
    /\ attached = [v \in Videos |-> TRUE]
    /\ hidden = [v \in Videos |-> FALSE]
    /\ area = PageLayout
    /\ bodyObserved = TRUE
    /\ playing = [v \in Videos |-> FALSE]
    /\ playbackRate = [v \in Videos |-> DefaultPlaybackRate]
    /\ now = 1
    /\ settings \in IndicatorSettings
    /\ trackedVideos = <<>>
    /\ videoEventListeners = {}
    /\ lastActiveVideo = NoVideo
    /\ hotkeyState = IdleHotkeyState
    /\ indicator = NoIndicator
    /\ duplicates = <<>>
    /\ autoHideTimer = "null"
    /\ navTimer = FALSE
    /\ phase = "ready"
    /\ pageState = "active"
    /\ steps = 0
    /\ StoreIdle
    /\ ScriptIdle

IndicatorShow ==
    /\ \E speed \in IndicatorSpeeds : Commit(ShowSpeedIndicator(World, speed))
    /\ UNCHANGED <<phase, pageState, steps>>

IndicatorUpdate ==
    /\ \E speed \in IndicatorSpeeds : Commit(UpdateSpeedIndicator(World, speed))
    /\ UNCHANGED <<phase, pageState, steps>>

IndicatorHide ==
    /\ Commit(HideSpeedIndicator(World))
    /\ UNCHANGED <<phase, pageState, steps>>

IndicatorKeyDown ==
    /\ \E event \in KeyEvents : Commit(HandleKeyDown(World, event, NoThrow))
    /\ UNCHANGED <<phase, pageState, steps>>

IndicatorKeyUp ==
    /\ \E event \in KeyUpEvents : Commit(HandleKeyUp(World, event, NoThrow))
    /\ UNCHANGED <<phase, pageState, steps>>

IndicatorAutoHides ==
    /\ autoHideTimer = "pending"
    /\ Commit(AutoHideTimerCallback(World))
    /\ UNCHANGED <<phase, pageState, steps>>

IndicatorRemoved ==
    /\ \E i \in HidingIndicators(World) : Commit(RemoveHiddenIndicator(World, i))
    /\ UNCHANGED <<phase, pageState, steps>>

IndicatorNext ==
    \/ IndicatorShow
    \/ IndicatorUpdate
    \/ IndicatorHide
    \/ IndicatorKeyDown
    \/ IndicatorKeyUp
    \/ IndicatorAutoHides
    \/ IndicatorRemoved

IndicatorSpec == IndicatorInit /\ [][IndicatorNext]_vars

\* C26: whatever shows, updates, hides and timer firings have happened, and
\* whichever of them comes next, the document holds at most one element
\* with the indicator id.
C26_SingleIndicator ==
    /\ Len(IndicatorElements(World)) <= 1
    /\ \A speed \in IndicatorSpeeds :
          /\ Len(IndicatorElements(ShowSpeedIndicator(World, speed))) <= 1
          /\ Len(IndicatorElements(UpdateSpeedIndicator(World, speed))) <= 1
    /\ Len(IndicatorElements(HideSpeedIndicator(World))) <= 1
    /\ Len(IndicatorElements(AutoHideTimerCallback(World))) <= 1

\* A show while the previous element is still fading out replaces it.
C26_Witness ==
    /\ indicator.state = "hiding"
    /\ indicator.speed = 2
    /\ ShowSpeedIndicator(World, 3).indicator = [state |-> "shown", speed |-> 3]
    /\ Len(IndicatorElements(ShowSpeedIndicator(World, 3))) = 1

\* The show or update that led to "after" has put up or refreshed an element.
C27_Acted(after) ==
    after.indicator.state # "none"
        /\ (indicator.state # "none" \/ after.settings.ui.showIndicator)

C27_Timer(after) ==
    C27_Acted(after) =>
        IF IndicatorTimeout(settings) > 0
        THEN /\ after.autoHideTimer = "pending"
             /\ LET elapsed == AutoHideTimerCallback(after)
                IN  IF after.hotkeyState.isPressed
                    THEN elapsed.indicator = after.indicator
                    ELSE elapsed.indicator.state = "hiding"
        ELSE after.autoHideTimer = "null"

\* C27: a show or update under a positive timeout leaves the timer pending,
\* and its elapsing hides the indicator unless the hotkey is held, in which
\* case the indicator is left as it is; under timeout 0 no timer is pending
\* after the show or update.  The same holds of every pending timer.
C27_AutoHide ==
    /\ \A speed \in IndicatorSpeeds :
          /\ C27_Timer(ShowSpeedIndicator(World, speed))
          /\ C27_Timer(UpdateSpeedIndicator(World, speed))
    /\ autoHideTimer = "pending" =>
          /\ IndicatorTimeout(settings) > 0
          /\ LET elapsed == AutoHideTimerCallback(World)
             IN  IF hotkeyState.isPressed
                 THEN elapsed.indicator = indicator
                 ELSE elapsed.indicator.state # "shown"

\* The timer of a shown indicator is about to elapse while the hotkey is held.
C27_Witness ==
    /\ autoHideTimer = "pending"
    /\ indicator.state = "shown"
    /\ hotkeyState.isPressed
    /\ AutoHideTimerCallback(World).indicator.state = "shown"

(***************************************************************************)
(* The ContentScriptManager: initialize, its retry timeouts and the        *)
(* REINITIALIZE message.  An initialization that fails does so where       *)
(* loadInitialSettings calls chrome.runtime.sendMessage (the call throws   *)
(* once the extension context is gone): the controller is constructed and  *)
(* nothing is registered.  The page state is that of the controller the    *)
(* manager refers to.                                                      *)
(***************************************************************************)
MaxRetries == 3             \* this.maxRetries
MaxInitializeCalls == 4     \* runs of initialize in a behaviour

Manager ==
    [isInitialized |-> isInitialized,
     initializationRetries |-> initializationRetries,
     retryTimers |-> retryTimers,
     messageListeners |-> messageListeners,
     initializeCalls |-> initializeCalls]

CommitManager(m) ==
    /\ isInitialized' = m.isInitialized
    /\ initializationRetries' = m.initializationRetries
    /\ retryTimers' = m.retryTimers
    /\ messageListeners' = m.messageListeners
    /\ initializeCalls' = m.initializeCalls

\* new VideoSpeedController()
NewController(w) ==
    [w EXCEPT !.settings = NoSettings, !.trackedVideos = <<>>,
              !.videoEventListeners = {}, !.lastActiveVideo = NoVideo,
              !.hotkeyState = IdleHotkeyState, !.autoHideTimer = "null"]

\* initialize, on the manager: the try block to its end, or the catch block.
InitializeManager(m, ok) ==
    LET called == [m EXCEPT !.initializeCalls = @ + 1]
    IN  IF ok
        THEN [called EXCEPT !.isInitialized = TRUE, !.messageListeners = @ + 1]
        ELSE IF m.initializationRetries < MaxRetries
        THEN [called EXCEPT !.initializationRetries = @ + 1,
                            !.retryTimers = @ + 1]
        ELSE called

\* initialize, on the page: the new controller, with the settings of the
\* response s and its observer on document.body when the run succeeds.
InitializePage(w, ok, s) ==
    IF ok THEN [NewController(w) EXCEPT !.settings = s, !.bodyObserved = TRUE]
    ELSE NewController(w)

\* cleanup: the speeds are reset, the indicator hidden, the listeners and
\* the observer of the controller removed.
ManagerCleanup(w, bad) ==
    [HideSpeedIndicator(ResetAllSpeeds(w, bad).w)
        EXCEPT !.videoEventListeners = {}, !.bodyObserved = FALSE]

\* reinitialize up to its call of initialize.
ReinitializeManager(m) ==
    [m EXCEPT !.isInitialized = FALSE, !.initializationRetries = 0]

ManagerInit ==
    /\ attached = [v \in Videos |-> TRUE]
    /\ hidden = [v \in Videos |-> FALSE]
    /\ area = PageLayout
    /\ bodyObserved = FALSE
    /\ playing = [v \in Videos |-> FALSE]
    /\ playbackRate = [v \in Videos |-> DefaultPlaybackRate]
    /\ now = 1
    /\ settings = NoSettings
    /\ trackedVideos = <<>>
    /\ videoEventListeners = {}
    /\ lastActiveVideo = NoVideo
    /\ hotkeyState = IdleHotkeyState
    /\ indicator = NoIndicator
    /\ duplicates = <<>>
    /\ autoHideTimer = "null"
    /\ navTimer = FALSE
    /\ phase = "loading"
    /\ pageState = "active"
    /\ steps = 0
    /\ StoreIdle
    /\ ScriptIdle

\* One run of initialize from the page w and the manager m.
RunInitialize(w, m) ==
    /\ m.initializeCalls < MaxInitializeCalls
    /\ \E ok \in BOOLEAN, s \in ValidatedSettings \cup {NoSettings} :
          /\ CommitTab(InitializePage(w, ok, s))
          /\ CommitManager(InitializeManager(m, ok))
          /\ phase' = IF ok THEN "ready" ELSE "loading"
    /\ UNCHANGED <<pageState, steps, storeVars, logVars>>

\* The call at the end of the content script.
ManagerStarts ==
    /\ initializeCalls = 0
    /\ RunInitialize(World, Manager)

\* setTimeout(() => this.initialize(), 1000 * this.initializationRetries)
RetryTimerFires ==
    /\ retryTimers > 0
    /\ RunInitialize(World, [Manager EXCEPT !.retryTimers = @ - 1])

\* The REINITIALIZE case of a message listener.
ManagerReinitializes ==
    /\ messageListeners > 0
    /\ \E bad \in ThrowSets :
          RunInitialize(ManagerCleanup(World, bad), ReinitializeManager(Manager))

ManagerKeyDown ==
    /\ Ready
    /\ \E event \in KeyEvents : Commit(HandleKeyDown(World, event, NoThrow))
    /\ UNCHANGED <<phase, pageState, steps>>

ManagerKeyUp ==
    /\ Ready
    /\ \E event \in KeyUpEvents : Commit(HandleKeyUp(World, event, NoThrow))
    /\ UNCHANGED <<phase, pageState, steps>>

ManagerNext ==
    \/ ManagerStarts
    \/ RetryTimerFires
    \/ ManagerReinitializes
    \/ ManagerKeyDown
    \/ ManagerKeyUp

ManagerSpec == ManagerInit /\ [][ManagerNext]_vars

MaxErrorLogSize == 50       \* this.maxErrorLogSize
MaxLogged == 110            \* pushes between two clearErrorLog calls

\* errorLog.slice(0, maxErrorLogSize): the oldest entries are kept.
TrimErrorLogKeepingOldest(log) ==
    IF Len(log) > MaxErrorLogSize THEN SubSeq(log, 1, MaxErrorLogSize) ELSE log

\* errorLog.slice(-maxErrorLogSize) when the log is longer than that.
TrimErrorLog(log) ==
    IF Len(log) > MaxErrorLogSize
    THEN SubSeq(log, Len(log) - MaxErrorLogSize + 1, Len(log))
    ELSE log

LogError(log, serial, thrown) ==
    IF thrown = "null" THEN log ELSE TrimErrorLog(Append(log, serial))

ErrorLogInit ==
    /\ attached = [v \in Videos |-> TRUE]
    /\ hidden = [v \in Videos |-> FALSE]
    /\ area = PageLayout
    /\ bodyObserved = TRUE
    /\ playing = [v \in Videos |-> FALSE]
    /\ playbackRate = [v \in Videos |-> DefaultPlaybackRate]
    /\ now = 1
    /\ settings = SpaceSettings
    /\ trackedVideos = <<>>
    /\ videoEventListeners = {}
    /\ lastActiveVideo = NoVideo
    /\ hotkeyState = IdleHotkeyState
    /\ indicator = NoIndicator
    /\ duplicates = <<>>
    /\ autoHideTimer = "null"
    /\ navTimer = FALSE
    /\ phase = "ready"
    /\ pageState = "active"
    /\ steps = 0
    /\ StoreIdle
    /\ hostname = GenericHostname
    /\ ManagerIdle
    /\ LogEmpty

ControllerLogsError ==
    /\ logged < MaxLogged
    /\ \E thrown \in {"Error", "null"} :
          /\ errorLog' = LogError(errorLog, logged + 1, thrown)
          /\ logged' = IF thrown = "null" THEN logged ELSE logged + 1
    /\ CommitTab(World)
    /\ UNCHANGED <<phase, pageState, steps, storeVars, managerVars>>

\* clearErrorLog
ControllerClearsErrorLog ==
    /\ errorLog' = <<>>
    /\ logged' = 0
    /\ CommitTab(World)
    /\ UNCHANGED <<phase, pageState, steps, storeVars, managerVars>>

ErrorLogNext ==
    \/ ControllerLogsError
    \/ ControllerClearsErrorLog

ErrorLogSpec == ErrorLogInit /\ [][ErrorLogNext]_vars

\* C29: the log holds the last min(n, 50) of the n entries pushed, oldest
\* first: never more than 50, and exactly the 50 most recent once 50 have
\* been pushed.
C29_MostRecent ==
    /\ Len(errorLog) <= MaxErrorLogSize
    /\ Len(errorLog) = IF logged < MaxErrorLogSize THEN logged ELSE MaxErrorLogSize
    /\ \A i \in 1..Len(errorLog) : errorLog[i] = logged - Len(errorLog) + i

\* Sixty entries pushed: the first ten are gone.
C29_Witness ==
    /\ logged = 60
    /\ Len(errorLog) = MaxErrorLogSize
    /\ errorLog[1] = 11
    /\ errorLog[MaxErrorLogSize] = 60

(***************************************************************************)
(* Platforms.  window.location.hostname is one of a few host names (the    *)
(* browser gives it in lower case, which toLowerCase leaves as it is);     *)
(* Includes is String.prototype.includes on them.                          *)
(***************************************************************************)
Hostnames ==
    {"www.youtube.com", "youtu.be", "player.vimeo.com", "www.netflix.com",
     GenericHostname}

Includes(url, part) ==
    \/ part = "youtube.com" /\ url = "www.youtube.com"
    \/ part = "youtu.be" /\ url = "youtu.be"
    \/ part = "vimeo.com" /\ url = "player.vimeo.com"
    \/ part = "netflix.com" /\ url = "www.netflix.com"

DetectPlatform(w) ==
    IF Includes(w.hostname, "youtube.com") \/ Includes(w.hostname, "youtu.be")
    THEN "youtube"
    ELSE IF Includes(w.hostname, "vimeo.com") THEN "vimeo"
    ELSE IF Includes(w.hostname, "netflix.com") THEN "netflix"
    ELSE "generic"

\* The default settings (hotkey Space here) with one platform switched off,
\* as the popup saves them.
PlatformSettings ==
    {SpaceSettings} \cup
    {[SpaceSettings EXCEPT !.platforms[p] = FALSE] : p \in PlatformNames}

PlatformInit ==
    /\ attached = [v \in Videos |-> TRUE]
    /\ hidden = [v \in Videos |-> FALSE]
    /\ area = PageLayout
    /\ bodyObserved = TRUE
    /\ playing \in [Videos -> BOOLEAN]
    /\ playbackRate = [v \in Videos |-> DefaultPlaybackRate]
    /\ now = 1
    /\ settings \in PlatformSettings
    /\ trackedVideos = <<>>
    /\ videoEventListeners = {}
    /\ lastActiveVideo = NoVideo
    /\ hotkeyState = IdleHotkeyState
    /\ indicator = NoIndicator
    /\ duplicates = <<>>
    /\ autoHideTimer = "null"
    /\ navTimer = FALSE
    /\ phase = "ready"
    /\ pageState = "active"
    /\ steps = 0
    /\ StoreIdle
    /\ hostname \in Hostnames
    /\ ManagerIdle
    /\ LogEmpty

PlatformKeyDown ==
    /\ \E event \in KeyEvents : Commit(HandleKeyDown(World, event, NoThrow))
    /\ UNCHANGED <<phase, pageState, steps>>

PlatformKeyUp ==
    /\ \E event \in KeyUpEvents : Commit(HandleKeyUp(World, event, NoThrow))
    /\ UNCHANGED <<phase, pageState, steps>>

PlatformNext ==
    \/ PlatformKeyDown
    \/ PlatformKeyUp

PlatformSpec == PlatformInit /\ [][PlatformNext]_vars

\* C30: on a page whose detected platform is switched off in
\* settings.platforms, no keydown changes the playback rate of any video.
C30_AsStated ==
    ~settings.platforms[DetectPlatform(World)] =>
        \A event \in KeyEvents :
            HandleKeyDown(World, event, NoThrow).playbackRate = playbackRate

(***************************************************************************)
(* C31.  originalRate under media events.                                  *)
(***************************************************************************)
\* The video v is tracked, listened to and flagged boosted, and runs at a
\* rate the boost gave it (neither the recorded nor the default one).
C31_Boosted(v) ==
    /\ Ready
    /\ v \in videoEventListeners
    /\ IsBoosted(World, v)
    /\ playbackRate[v] # trackedVideos[v].originalRate
    /\ playbackRate[v] # DefaultPlaybackRate

\* C31: while a video's boosted flag is set, none of loadstart, loadeddata,
\* canplay and ratechange leaves its originalRate at the boosted rate.
C31_AsStated ==
    \A v \in Videos :
        C31_Boosted(v) =>
            /\ HandleVideoLoadStart(World, v).trackedVideos[v].originalRate
                   # playbackRate[v]
            /\ HandleVideoLoadedData(World, v).trackedVideos[v].originalRate
                   # playbackRate[v]
            /\ HandleVideoCanPlay(World, v).trackedVideos[v].originalRate
                   # playbackRate[v]
            /\ HandleVideoRateChange(World, v).trackedVideos[v].originalRate
                   # playbackRate[v]

(***************************************************************************)
(* C32.  A settings update while the hotkey is held.                       *)
(***************************************************************************)
\* The SETTINGS_UPDATED case of the content script's message listener.
OnSettingsUpdated(w, newSettings) == [w EXCEPT !.settings = newSettings]

\* The objects a SETTINGS_UPDATED message can carry: those of the pool and
\* the partial object of an update request.
C32_Updates == SettingsPool \cup {MultiplierOnlySettings}

\* The keyup events of the key that is held.
C32_Releases ==
    {event \in KeyUpEvents : NormalizeKey(event.key) = hotkeyState.currentKey}

C32_Tolerated(updates) ==
    (Active /\ Boosted) =>
        \A s \in updates :
            /\ OnSettingsUpdated(World, s).playbackRate = playbackRate
            /\ OnSettingsUpdated(World, s).hotkeyState = hotkeyState
            /\ \A event \in C32_Releases :
                  ~HandleKeyUp(OnSettingsUpdated(World, s), event, NoThrow)
                      .hotkeyState.isPressed

\* C32: in the state Boosted a settings update changes no playback rate and
\* not the hotkey state, and the keyup of the held key that follows returns
\* the state to Idle, whatever the new settings object is.
C32_AsStated == C32_Tolerated(C32_Updates)

(***************************************************************************)
(* C33.  Idle and the boosted flags.                                       *)
(***************************************************************************)
\* No video tracked in w is flagged boosted.
C33_NoneFlagged(w) == \A v \in DOMAIN w.trackedVideos : ~IsBoosted(w, v)

\* C33: when the keyup of the held key has returned and left the state Idle
\* (no rate assignment throwing), no tracked video is flagged boosted,
\* whatever events came between the keydown and the keyup.
C33_AsStated ==
    (Active /\ Boosted) =>
        \A event \in C32_Releases :
            ~HandleKeyUp(World, event, NoThrow).hotkeyState.isPressed
                => C33_NoneFlagged(HandleKeyUp(World, event, NoThrow))

(***************************************************************************)
(* C34.  Leaving the map.                                                  *)
(***************************************************************************)
\* Every video the step to "after" took out of the map was not flagged
\* boosted or is back at its recorded rate.
C34_Released(after) ==
    \A v \in DOMAIN trackedVideos \ DOMAIN after.trackedVideos :
        IsBoosted(World, v) =>
            after.playbackRate[v] = trackedVideos[v].originalRate

\* C34: detectVideos (updateTrackedVideos), cleanupRemovedVideos for any
\* removed node and cleanupStaleElements take a video out of the map only
\* if it is not flagged boosted or runs at its originalRate again.
C34_AsStated ==
    Ready =>
        /\ C34_Released(DetectVideos(World).w)
        /\ C34_Released(CleanupStaleElements(World))
        /\ \A removed \in SUBSET Videos :
              C34_Released(CleanupRemovedVideos(Detach(World, removed), removed))

(***************************************************************************)
(* C35.  The indicator after the return to Idle.  Without user input only  *)
(* the two timeouts act on the indicator: the auto-hide timeout hides it   *)
(* and the timeout of hideSpeedIndicator removes the hidden element.       *)
(***************************************************************************)
\* The indicator is gone or one of the timeouts that lead to its removal is
\* pending.
C35_OnItsWayOut ==
    \/ indicator.state = "none"
    \/ indicator.state = "hiding"
    \/ autoHideTimer = "pending"

\* C35: in every Idle state (under settings with a positive indicator
\* timeout) the indicator is absent or its removal is under way, so that it
\* leaves the document without further input.
C35_AsStated ==
    (Ready /\ Idle /\ IndicatorTimeout(settings) > 0) => C35_OnItsWayOut

(***************************************************************************)
(* The keyboard as the browser reports it.  The popup records a hotkey by  *)
(* its KeyboardEvent.code ("Backquote", "KeyA", "Space"); handleKeyDown    *)
(* compares the KeyboardEvent.key of the event (a grave accent, "a", " ").  *)
(***************************************************************************)
\* The event.key of the backquote key: the one-character string holding the
\* grave accent, written here by its code point.
GraveAccent == "U+0060"

\* The event.key of the unshifted key with the given event.code.
KeyOfCode(code) ==
    CASE code = "Backquote" -> GraveAccent
      [] code = "KeyA" -> "a"
      [] code = "Space" -> " "
      [] OTHER -> code

KeyboardCodes == {"Backquote", "KeyA", "Space", "Enter"}

KeyboardSettings ==
    {DefaultSettings} \cup
    {MkSettings(code, {}, TRUE, 2, TRUE, 2000) : code \in KeyboardCodes}

KeyboardEvents ==
    [key : {KeyOfCode(code) : code \in KeyboardCodes},
     modifiers : SUBSET ModifierNames,
     target : {<<El("BODY", "inherit")>>}]

KeyboardInit ==
    /\ attached = [v \in Videos |-> TRUE]
    /\ hidden = [v \in Videos |-> FALSE]
    /\ area = PageLayout
    /\ bodyObserved = TRUE
    /\ playing \in [Videos -> BOOLEAN]
    /\ playbackRate = [v \in Videos |-> DefaultPlaybackRate]
    /\ now = 1
    /\ settings \in KeyboardSettings
    /\ trackedVideos = <<>>
    /\ videoEventListeners = {}
    /\ lastActiveVideo = NoVideo
    /\ hotkeyState = IdleHotkeyState
    /\ indicator = NoIndicator
    /\ duplicates = <<>>
    /\ autoHideTimer = "null"
    /\ navTimer = FALSE
    /\ phase = "ready"
    /\ pageState = "active"
    /\ steps = 0
    /\ StoreIdle
    /\ ScriptIdle

KeyboardKeyDown ==
    /\ \E event \in KeyboardEvents : Commit(HandleKeyDown(World, event, NoThrow))
    /\ UNCHANGED <<phase, pageState, steps>>

KeyboardKeyUp ==
    /\ \E event \in KeyboardEvents : Commit(HandleKeyUp(World, event, NoThrow))
    /\ UNCHANGED <<phase, pageState, steps>>

KeyboardNext ==
    \/ KeyboardKeyDown
    \/ KeyboardKeyUp

KeyboardSpec == KeyboardInit /\ [][KeyboardNext]_vars

\* C36: under the default settings, in the state Idle, the keydown of the
\* backquote key with no modifier held, outside any text field, activates
\* the boost: the state becomes Boosted and the active video runs at the
\* default multiplier.
C36_AsStated ==
    (settings = DefaultSettings /\ Idle) =>
        \A event \in KeyboardEvents :
            (event.key = KeyOfCode("Backquote") /\ event.modifiers = {}) =>
                /\ HandleKeyDown(World, event, NoThrow).hotkeyState.isPressed
                /\ \E v \in Videos :
                      HandleKeyDown(World, event, NoThrow).playbackRate[v]
                          = DefaultSettings.speedMultiplier

\* The same key press activates the boost when the stored key is spelled as
\* normalizeKey spells the event's key.
C36_SpaceBoosts == settings.hotkey.key = "Space" /\ Boosted

(***************************************************************************)
(* The copies of the settings.                                             *)
(***************************************************************************)
\* The settings of the tab once it has received every message on its way.
C37_Settled(k) ==
    IF k.inbox = <<>> THEN settings ELSE k.inbox[Len(k.inbox)]

\* C37: once no settings message and no delayed send is in flight, the
\* settings of the initialized tab are the settings written to the store
\* last.  Here for an UPDATE_SETTINGS that is answered with success while a
\* send of tabs.onUpdated waits for its timeout: after the update, the
\* timeout and the delivery of every message, the tab holds what is stored.
C37_AsStated ==
    (phase = "ready" /\ delayedSends # <<>>) =>
        \A newSettings \in RequestSettings :
            LET k == HandleUpdateSettings(Worker, newSettings, FALSE)
            IN  k.responses[1].success =>
                    C37_Settled(DelayedSend(k)) = k.stored

(***************************************************************************)
(* loadSettings in its two parts.  The function awaits                     *)
(* chrome.storage.sync.get; what it does with the result, the save of the  *)
(* defaults or of the migrated settings included, runs when the service    *)
(* worker resumes it, and other handlers run in between.                   *)
(***************************************************************************)
\* loadSettings from the statement after its await of the get, which has
\* read storedSettings.
LoadSettingsResumed(k, storedSettings, setFails) ==
    IF IsNull(storedSettings)
    THEN SaveSettings(k, DefaultSettings, setFails).k
    ELSE IF ~ValidateSettings(storedSettings).isValid
    THEN SaveSettings(k, MigrateStored(storedSettings), setFails).k
    ELSE k

LoadInit ==
    /\ attached = [v \in Videos |-> TRUE]
    /\ hidden = [v \in Videos |-> FALSE]
    /\ area = PageLayout
    /\ bodyObserved = TRUE
    /\ playing = [v \in Videos |-> FALSE]
    /\ playbackRate = [v \in Videos |-> DefaultPlaybackRate]
    /\ now = 1
    /\ settings = NoSettings
    /\ trackedVideos = <<>>
    /\ videoEventListeners = {}
    /\ lastActiveVideo = NoVideo
    /\ hotkeyState = IdleHotkeyState
    /\ indicator = NoIndicator
    /\ duplicates = <<>>
    /\ autoHideTimer = "null"
    /\ navTimer = FALSE
    /\ phase = "ready"
    /\ pageState = "active"
    /\ steps = 0
    /\ stored \in SyncedSettings
    /\ request = NoRequest
    /\ responses = <<>>
    /\ inbox = <<>>
    /\ delayedSends = <<>>
    /\ pendingLoad = NotLoading
    /\ ScriptIdle

\* onInstalled or onStartup calls loadSettings: the get is issued and reads
\* the store.
LoadStarts ==
    /\ ~pendingLoad.pending
    /\ pendingLoad' = [pending |-> TRUE, read |-> stored]
    /\ CommitPage(World)
    /\ UNCHANGED <<phase, pageState, steps, stored, request, responses, inbox,
                   delayedSends>>

\* The service worker resumes the loadSettings.
LoadResumes ==
    /\ pendingLoad.pending
    /\ \E setFails \in BOOLEAN :
          LET k == LoadSettingsResumed(Worker, pendingLoad.read, setFails)
          IN  /\ Len(k.inbox) <= MaxInbox
              /\ stored' = k.stored
              /\ inbox' = k.inbox
    /\ pendingLoad' = NotLoading
    /\ CommitPage(World)
    /\ UNCHANGED <<phase, pageState, steps, request, responses, delayedSends>>

\* UPDATE_SETTINGS or RESET_SETTINGS of the popup, handled while the
\* loadSettings waits or when none runs.
LoadPopupMessage ==
    /\ \E message \in Messages, setFails \in BOOLEAN :
          LET k == OnMessage(Worker, message, FALSE, setFails)
          IN  /\ message.type \in {"UPDATE_SETTINGS", "RESET_SETTINGS"}
              /\ request' = message
              /\ Len(k.inbox) <= MaxInbox
              /\ stored' = k.stored
              /\ responses' = k.responses
              /\ inbox' = k.inbox
    /\ CommitPage(World)
    /\ UNCHANGED <<phase, pageState, steps, delayedSends, pendingLoad>>

\* A change that sync brings from another device.
LoadStorageChanged ==
    /\ \E newValue \in SyncedSettings :
          LET k == OnStorageChanged(Worker, newValue)
          IN  /\ Len(k.inbox) <= MaxInbox
              /\ stored' = k.stored
              /\ inbox' = k.inbox
    /\ CommitPage(World)
    /\ UNCHANGED <<phase, pageState, steps, request, responses, delayedSends,
                   pendingLoad>>

LoadNext ==
    \/ LoadStarts
    \/ LoadResumes
    \/ LoadPopupMessage
    \/ LoadStorageChanged
    \/ TabReceivesSettingsUpdated

LoadSpec == LoadInit /\ [][LoadNext]_vars

\* C38: settings that an UPDATE_SETTINGS answered with success has stored
\* are not overwritten by a loadSettings that runs at the same time.  Here
\* for a loadSettings whose get has read the store and which resumes after
\* the update: what the update stored is still stored.
C38_AsStated ==
    pendingLoad.pending =>
        \A newSettings \in RequestSettings :
            LET k == HandleUpdateSettings(Worker, newSettings, FALSE)
            IN  k.responses[1].success =>
                    LoadSettingsResumed(k, pendingLoad.read, FALSE).stored
                        = newSettings

(***************************************************************************)
(* The default action of a keydown.                                        *)
(***************************************************************************)
\* handleKeyDown calls event.preventDefault() and event.stopPropagation().
PreventsDefault(w, event) ==
    /\ HasHotkeySettings(w.settings)
    /\ w.settings.hotkey.enabled
    /\ ~IsTypingInInputField(event.target)
    /\ IsConfiguredHotkey(UpdateModifierState(w, event), event)
    /\ ~w.hotkeyState.preventMultipleActivations

\* C39: in the state Boosted, a further keydown of the binding (the key
\* repeating while it is held), with the hotkey enabled and outside a text
\* field, has its default action prevented.
C39_AsStated ==
    (Active /\ Boosted) =>
        \A event \in KeyEvents :
            ( /\ HasHotkeySettings(settings)
              /\ settings.hotkey.enabled
              /\ ~IsTypingInInputField(event.target)
              /\ IsConfiguredHotkey(UpdateModifierState(World, event), event) )
                => PreventsDefault(World, event)

\* lastActiveVideo is null or a key of trackedVideos.
C40_Referenced(w) ==
    w.lastActiveVideo = NoVideo \/ w.lastActiveVideo \in DOMAIN w.trackedVideos

\* C40: lastActiveVideo is null or a key of trackedVideos, and a handler
\* that removes a video from the map clears the reference to it: the focus
\* handler, which detects the videos again, keeps the property.
C40_AsStated ==
    (Ready /\ C40_Referenced(World)) => C40_Referenced(HandleWindowFocus(World))
====
